---- MODULE Spec2Model ----
(***************************************************************************)
(* Analytic queueing-model engine of src/modelos: M/M/1, M/M/s, M/G/1,     *)
(* M/M/1/K, M/M/s/K, M/M/1/N, M/M/s/N and the multi-class priority         *)
(* engines, with the computations the forms of src/forms carry themselves. *)
(*                                                                         *)
(* Every engine function maps its parameters to a metrics record or a      *)
(* raised exception.  A behaviour of the model is a request called up to   *)
(* MaxCalls times: the initial state holds the request (function name and  *)
(* arguments), and each step of the called function stores what the call   *)
(* produced in res, what the call before it produced in prev and, for a    *)
(* method, the object it was called on in obj.  A call that is followed    *)
(* step by step (the loop of a priority function, the blocks of            *)
(* FilaApp.capture_output of src/app.py) keeps its local variables in obj  *)
(* until it ends.                                                          *)
(*                                                                         *)
(* Numbers: the engine computes on Python floats.  The model computes the  *)
(* same expressions on exact rationals <<num, den>> (den > 0, lowest       *)
(* terms), so that the algebraic identities the engine is meant to satisfy *)
(* can be decided.  The one place where the rounding of a double changes   *)
(* which branch the code takes on the inputs of the model (mg1 computes    *)
(* rho as lmbda * (1.0 / mu)) is modelled on IEEE-754 binary64 itself.     *)
(***************************************************************************)
EXTENDS Integers, Sequences, FiniteSets, TLC

VARIABLES req, res, prev, calls, obj

vars == <<req, res, prev, calls, obj>>

(***************************************************************************)
(* Bounds of the model.                                                    *)
(***************************************************************************)
MaxRate == 5
MaxServers == 3
MaxMg1Rate == 49
MaxClasses == 3
MaxClassRate == 2
MaxCapacity == 6
MaxK == 4

MaxPopRate == 2

MaxPopulation == 3

MaxFraction == 3

MaxFormRate == 1

MaxFormServers == 2

MaxProportion == 1

MaxFields == 2

MaxCalls == 2

MaxTime == 1

(***************************************************************************)
(* Exact rational arithmetic standing for Python's float operators.        *)
(***************************************************************************)
Abs(x) == IF x < 0 THEN -x ELSE x

RECURSIVE Gcd(_, _)
Gcd(a, b) == IF b = 0 THEN a ELSE Gcd(b, a % b)

(* n / d with the common factor g taken out and the sign in the numerator *)
Reduce(n, d, g) ==
    IF d < 0 THEN <<-(n \div g), -(d \div g)>> ELSE <<n \div g, d \div g>>

Norm(n, d) == Reduce(n, d, Gcd(Abs(n), Abs(d)))

Rat(n) == <<n, 1>>

Zero == Rat(0)

One == Rat(1)

(* x + y over the least common denominator, g the gcd of the denominators *)
AddOver(x, y, g) ==
    Norm(x[1] * (y[2] \div g) + y[1] * (x[2] \div g), (x[2] \div g) * y[2])

RAdd(x, y) == AddOver(x, y, Gcd(x[2], y[2]))

RNeg(x) == <<-x[1], x[2]>>

RSub(x, y) == RAdd(x, RNeg(y))

(* the product of two fractions that have no common factor crosswise *)
Cross(a, b) == <<a[1] * b[1], a[2] * b[2]>>

RMul(x, y) == Cross(Norm(x[1], y[2]), Norm(y[1], x[2]))

RDiv(x, y) == RMul(x, Norm(y[2], y[1]))

(* numerator of x - y over the least common denominator: its sign orders x, y *)
CmpOver(x, y, g) == x[1] * (y[2] \div g) - y[1] * (x[2] \div g)

RCmp(x, y) == CmpOver(x, y, Gcd(x[2], y[2]))

RLt(x, y) == RCmp(x, y) < 0

RLe(x, y) == RCmp(x, y) <= 0

RGe(x, y) == RLe(y, x)

RGt(x, y) == RLt(y, x)

RAbs(x) == <<Abs(x[1]), x[2]>>

RMax(x, y) == IF RLt(x, y) THEN y ELSE x

RECURSIVE RPow(_, _)
RPow(x, k) == IF k = 0 THEN One ELSE RMul(x, RPow(x, k - 1))

RECURSIVE factorial(_)
factorial(k) == IF k = 0 THEN 1 ELSE k * factorial(k - 1)

RECURSIVE RSum(_, _, _)
(* sum(f(k) for k in range(lo, hi)) *)
RSum(f, lo, hi) == IF lo >= hi THEN Zero ELSE RAdd(f[lo], RSum(f, lo + 1, hi))

(***************************************************************************)
(* IEEE-754 binary64 (Python float) for the two operations of mg1 whose    *)
(* rounding decides a branch: mean_service = 1.0 / mu and                  *)
(* rho = lmbda * mean_service, for integer lmbda >= 0 and mu >= 1.         *)
(* A significand is a sequence of base-2^20 digits, most significant       *)
(* first, without leading zeros.                                           *)
(***************************************************************************)
Limb == 2^20

RECURSIVE Log2Floor(_)
Log2Floor(m) == IF m <= 1 THEN 0 ELSE 1 + Log2Floor(m \div 2)

RECURSIVE BigTrim(_)
BigTrim(ds) == IF Len(ds) > 1 /\ ds[1] = 0 THEN BigTrim(Tail(ds)) ELSE ds

BigPow2(k) == <<2^(k % 20)>> \o [i \in 1 .. (k \div 20) |-> 0]

RECURSIVE BigDivStep(_, _, _, _)
BigDivStep(ds, i, rem, d) ==
    IF i > Len(ds) THEN <<<<>>, rem>>
    ELSE LET cur  == rem * Limb + ds[i]
             rest == BigDivStep(ds, i + 1, cur % d, d)
         IN  <<<<cur \div d>> \o rest[1], rest[2]>>

(* <<quotient, remainder>> of the digits ds by the small integer d *)
BigDivSmall(ds, d) ==
    LET qr == BigDivStep(ds, 1, 0, d) IN <<BigTrim(qr[1]), qr[2]>>

RECURSIVE BigMulStep(_, _, _, _)
BigMulStep(ds, i, carry, x) ==
    IF i = 0 THEN (IF carry = 0 THEN <<>> ELSE <<carry>>)
    ELSE LET cur == ds[i] * x + carry
         IN  BigMulStep(ds, i - 1, cur \div Limb, x) \o <<cur % Limb>>

BigMulSmall(ds, x) == BigTrim(BigMulStep(ds, Len(ds), 0, x) \o <<>>)

RECURSIVE BigAddStep(_, _, _)
BigAddStep(ds, i, carry) ==
    IF i = 0 THEN (IF carry = 0 THEN <<>> ELSE <<carry>>)
    ELSE LET cur == ds[i] + carry
         IN  BigAddStep(ds, i - 1, cur \div Limb) \o <<cur % Limb>>

BigAddSmall(ds, x) == BigAddStep(ds, Len(ds), x)

RECURSIVE BigGeFrom(_, _, _)
BigGeFrom(a, b, i) ==
    IF i > Len(a) THEN TRUE
    ELSE IF a[i] # b[i] THEN a[i] > b[i]
    ELSE BigGeFrom(a, b, i + 1)

BigGe(a, b) ==
    IF Len(a) # Len(b) THEN Len(a) > Len(b) ELSE BigGeFrom(a, b, 1)

(* An int that meets a float in a division or a product is converted to a  *)
(* float first; the conversion raises OverflowError ("int too large to     *)
(* convert to float") for an int that rounds to 2^1024 or more.  No        *)
(* factorial is within rounding distance of 2^1024: 170! < 2^1020 and      *)
(* 171! > 2^1026.                                                          *)
float_overflows(ds) == BigGe(ds, BigPow2(1024))

(* ds * x for an int x below 2^11, limb by limb from the last one: digits   *)
(* are the limbs of the product so far, carry what goes to the next limb   *)
BigTimesLimb(state, d, x) ==
    LET cur == d * x + state.carry
    IN  [digits |-> <<cur % Limb>> \o state.digits, carry |-> cur \div Limb]

(* the limbs hi down to lo: the second half, then from the state it leaves *)
(* the first half                                                          *)
RECURSIVE BigTimesFrom(_, _, _, _, _)
BigTimesFrom(state, ds, x, lo, hi) ==
    IF lo = hi THEN BigTimesLimb(state, ds[lo], x)
    ELSE LET mid == (lo + hi) \div 2
         IN  CHOOSE after \in {BigTimesFrom(before, ds, x, lo, mid) :
                                  before \in {BigTimesFrom(state, ds, x, mid + 1, hi)}} : TRUE

BigTimes(ds, x) ==
    CHOOSE product \in
        {BigTrim((IF last.carry = 0 THEN <<>> ELSE <<last.carry>>) \o last.digits) :
            last \in {BigTimesFrom([digits |-> <<>>, carry |-> 0], ds, x, 1, Len(ds))}} : TRUE

(* One term of the sums: factorial(k) is called and its value meets a      *)
(* float.  fact is math.factorial of the last argument, passed the list of *)
(* the arguments so far, over whether a conversion has raised; nothing is  *)
(* evaluated after the raise.                                              *)
factorial_term(state, k) ==
    IF state.over THEN state
    ELSE LET fact == IF k = 0 THEN <<1>> ELSE BigTimes(state.fact, k)
         IN  [fact |-> fact, passed |-> Append(state.passed, k),
              over |-> float_overflows(fact)]

(* the terms k = lo .. hi in turn: the first half, then from the state it  *)
(* leaves the second half                                                  *)
RECURSIVE factorial_terms(_, _, _)
factorial_terms(state, lo, hi) ==
    IF lo = hi THEN factorial_term(state, lo)
    ELSE LET mid == (lo + hi) \div 2
         IN  CHOOSE after \in {factorial_terms(before, mid + 1, hi) :
                                  before \in {factorial_terms(state, lo, mid)}} : TRUE

(* a**k / factorial(k) for k in range(s), then                             *)
(* a**s / (factorial(s) * (1 - rho))                                       *)
factorial_sums(s) ==
    factorial_terms([fact |-> <<1>>, passed |-> <<>>, over |-> FALSE], 0, s)

(* the arguments the sums pass to factorial, in the order of the calls *)
factorial_calls(s) == factorial_sums(s).passed

(* whether one of the terms of the sums raises OverflowError *)
factorial_overflows(s) == factorial_sums(s).over

(* 1.0 / mu correctly rounded (round to nearest, ties to even): the 53-bit *)
(* significand sig and the exponent exp of the double sig / 2^exp.         *)
binary64_recip(mu) ==
    LET e   == Log2Floor(mu)
        k   == IF 2^e = mu THEN 52 + e ELSE 53 + e
        qr  == BigDivSmall(BigPow2(k), mu)
        odd == qr[1][Len(qr[1])] % 2 = 1
        up  == 2 * qr[2] > mu \/ (2 * qr[2] = mu /\ odd)
    IN  [sig |-> IF up THEN BigAddSmall(qr[1], 1) ELSE qr[1], exp |-> k]

(* Whether the double lmbda * x is >= 1.0, for the double x = sig / 2^exp. *)
(* The exact product is P / 2^exp with P = lmbda * sig.  Rounding is       *)
(* monotone and 1.0 is a double, so the rounded product is >= 1.0 exactly  *)
(* when the exact one is at or above the midpoint 1 - 2^-54 between 1.0    *)
(* and its predecessor (the tie goes to the even significand of 1.0):      *)
(* 4 * P + 2^(exp - 52) >= 2^(exp + 2).                                    *)
binary64_mul_ge_one(lmbda, x) ==
    LET P == BigMulSmall(x.sig, lmbda)
    IN  BigGe(BigAddSmall(BigMulSmall(P, 4), 2^(x.exp - 52)), BigPow2(x.exp + 2))

(***************************************************************************)
(* What a call produces: a raised exception or a returned value.           *)
(***************************************************************************)
NoResult == [kind |-> "none"]

Raise(exc, msg) == [kind |-> "raise", exc |-> exc, msg |-> msg, cls |-> 0]

RaiseClass(msg, k) == [kind |-> "raise", exc |-> "ValueError", msg |-> msg, cls |-> k]

OverflowError == Raise("OverflowError", "int too large to convert to float")

(***************************************************************************)
(* mm1(lmbda, mu)                                                          *)
(***************************************************************************)
mm1(lmbda, mu) ==
    IF lmbda < 0 THEN Raise("ValueError", "lambda (lmbda) deve ser >= 0")
    ELSE IF mu <= 0 THEN Raise("ValueError", "mu deve ser > 0")
    ELSE
      LET rho == RDiv(Rat(lmbda), Rat(mu))
      IN  IF RGe(rho, One) THEN Raise("ValueError", "Sistema instavel")
          ELSE IF lmbda = 0 THEN Raise("ZeroDivisionError", "float division by zero")
          ELSE
            LET p0 == RSub(One, rho)
                L  == RDiv(rho, RSub(One, rho))
                Lq == RDiv(RPow(rho, 2), RSub(One, rho))
                W  == RDiv(L, Rat(lmbda))
                Wq == RDiv(Lq, Rat(lmbda))
            IN  [kind |-> "return", rho |-> rho, p0 |-> p0,
                 L |-> L, Lq |-> Lq, W |-> W, Wq |-> Wq]

(***************************************************************************)
(* mms(lmbda, mu, s)                                                       *)
(***************************************************************************)
(* mutant of mms_Lq: (1 - rho) is not squared *)
mms_Lq_unsquared(p0, a, rho, s) ==
    RDiv(RMul(RMul(p0, RPow(a, s)), rho),
         RMul(Rat(factorial(s)), RSub(One, rho)))

(* Lq = p0 * (a**s) * rho / (factorial(s) * (1 - rho) ** 2) *)
mms_Lq(p0, a, rho, s) ==
    RDiv(RMul(RMul(p0, RPow(a, s)), rho),
         RMul(Rat(factorial(s)), RPow(RSub(One, rho), 2)))

(* p0 = 1.0 / (sum1 + sum2) *)
mms_p0(a, rho, s) ==
    LET term(k) == RDiv(RPow(a, k), Rat(factorial(k)))
        sum1 == RSum([k \in 0 .. s - 1 |-> term(k)], 0, s)
        sum2 == RDiv(RPow(a, s), RMul(Rat(factorial(s)), RSub(One, rho)))
    IN  RDiv(One, RAdd(sum1, sum2))

(* the record mms returns, from Lq on *)
mms_result(lmbda, a, rho, p0, Lq) ==
    LET L  == RAdd(Lq, a)
        Wq == RDiv(Lq, Rat(lmbda))
        W  == RDiv(L, Rat(lmbda))
    IN  [kind |-> "return", rho |-> rho, p0 |-> p0,
         L |-> L, Lq |-> Lq, W |-> W, Wq |-> Wq]

(* mms past its stability check, from p0 on *)
mms_stable(lmbda, s, a, rho, p0) ==
    mms_result(lmbda, a, rho, p0, mms_Lq(p0, a, rho, s))

mms(lmbda, mu, s) ==
    IF lmbda < 0 THEN Raise("ValueError", "lambda (lmbda) deve ser >= 0")
    ELSE IF mu <= 0 THEN Raise("ValueError", "mu deve ser > 0")
    ELSE IF s <= 0 THEN Raise("ValueError", "s deve ser inteiro >= 1")
    ELSE IF lmbda = 0 THEN
        [kind |-> "return", rho |-> Zero, p0 |-> One,
         L |-> Zero, Lq |-> Zero, W |-> Zero, Wq |-> Zero]
    ELSE
      LET rho == RDiv(Rat(lmbda), Rat(s * mu))
          a == RDiv(Rat(lmbda), Rat(mu))
      IN  IF RGe(rho, One) THEN Raise("ValueError", "Sistema instavel")
          ELSE IF factorial_overflows(s) THEN OverflowError
          ELSE mms_stable(lmbda, s, a, rho, mms_p0(a, rho, s))

(***************************************************************************)
(* mg1(lmbda, mu, service_distribution)                                    *)
(***************************************************************************)
(* (service_distribution or "poisson").strip().lower() on the tags of the  *)
(* model                                                                   *)
strip_lower(tag) ==
    CASE tag = "" -> "poisson"
      [] tag = " Exponential " -> "exponential"
      [] OTHER -> tag

(* mutant of mg1_W: the service time is left out of the time in system *)
mg1_W_without_service(Wq, mean_service) == Wq

(* W = Wq + mean_service *)
mg1_W(Wq, mean_service) == RAdd(Wq, mean_service)

(* the record mg1 returns for 0 < lmbda, from Wq on *)
mg1_result(lmbda, mean_service, variance, ES2, cs2, rho, Wq) ==
    LET W  == mg1_W(Wq, mean_service)
        Lq == RMul(Rat(lmbda), Wq)
        L  == RAdd(Lq, rho)
        p0 == RSub(One, rho)
    IN  [kind |-> "return", rho |-> rho, p0 |-> p0,
         L |-> L, Lq |-> Lq, W |-> W, Wq |-> Wq,
         ES |-> mean_service, ES2 |-> ES2, Var |-> variance, cs2 |-> cs2]

(* mg1 from the moments of the service time on *)
mg1_moments(lmbda, mu, mean_service, variance, ES2, cs2) ==
    LET rho == RMul(Rat(lmbda), mean_service)
    IN  IF binary64_mul_ge_one(lmbda, binary64_recip(mu))
        THEN Raise("ValueError", "Sistema instavel")
        ELSE IF lmbda = 0 THEN
            [kind |-> "return", rho |-> Zero, p0 |-> One,
             L |-> Zero, Lq |-> Zero, W |-> mean_service, Wq |-> Zero,
             ES |-> mean_service, ES2 |-> ES2, Var |-> variance, cs2 |-> cs2]
        ELSE IF RGe(rho, One) THEN
            (* The double rho is 1 - 2^-53 although lmbda >= mu: the call  *)
            (* goes on and returns metrics of the order of 2^52, beyond    *)
            (* the integers of the model; the record keeps the fields that *)
            (* do not depend on rho.                                       *)
            [kind |-> "return", rho_rounded_below_one |-> TRUE,
             ES |-> mean_service, ES2 |-> ES2, Var |-> variance, cs2 |-> cs2]
        ELSE mg1_result(lmbda, mean_service, variance, ES2, cs2, rho,
                        RDiv(RMul(Rat(lmbda), ES2), RMul(Rat(2), RSub(One, rho))))

(* mg1 from the variance of the service time on *)
mg1_variance(lmbda, mu, mean_service, variance) ==
    mg1_moments(lmbda, mu, mean_service, variance,
                RAdd(variance, RPow(mean_service, 2)),
                RDiv(variance, RPow(mean_service, 2)))

mg1(lmbda, mu, service_distribution) ==
    IF lmbda < 0 THEN Raise("ValueError", "lambda (lmbda) deve ser >= 0")
    ELSE IF mu <= 0 THEN Raise("ValueError", "mu deve ser > 0")
    ELSE
      LET mean_service == RDiv(One, Rat(mu))
          dist == strip_lower(service_distribution)
      IN  IF dist \notin {"poisson", "exponential", "deterministic"}
          THEN Raise("ValueError", "service_distribution deve ser 'poisson', 'exponential' ou 'deterministic'.")
          ELSE mg1_variance(lmbda, mu, mean_service,
                            CASE dist = "poisson" -> mean_service
                              [] dist = "exponential" -> RPow(mean_service, 2)
                              [] dist = "deterministic" -> Zero)

(***************************************************************************)
(* priority_common.erlang_c(lmbda, mu, s)                                  *)
(***************************************************************************)
(* mutant of erlang_c: the utilisation lmbda / (s * mu) for every s *)
erlang_c_utilisation(lmbda, mu, s) ==
    IF lmbda <= 0 THEN [kind |-> "return", value |-> Zero]
    ELSE IF s * mu = 0 THEN Raise("ZeroDivisionError", "float division by zero")
    ELSE IF RGe(RDiv(Rat(lmbda), Rat(s * mu)), One)
         THEN Raise("ValueError", "Subfila instavel")
    ELSE [kind |-> "return", value |-> RDiv(Rat(lmbda), Rat(s * mu))]

erlang_c(lmbda, mu, s) ==
    IF lmbda <= 0 THEN [kind |-> "return", value |-> Zero]
    ELSE IF s * mu = 0 THEN Raise("ZeroDivisionError", "float division by zero")
    ELSE
      LET rho == RDiv(Rat(lmbda), Rat(s * mu))
      IN  IF RGe(rho, One) THEN Raise("ValueError", "Subfila instavel")
          ELSE IF factorial_overflows(s) THEN OverflowError
          ELSE
            LET a == RDiv(Rat(lmbda), Rat(mu))
                term(k) == RDiv(RPow(a, k), Rat(factorial(k)))
                sum_terms == RSum([k \in 0 .. s - 1 |-> term(k)], 0, s)
                last_term == RDiv(RPow(a, s), RMul(Rat(factorial(s)), RSub(One, rho)))
                p0 == RDiv(One, RAdd(sum_terms, last_term))
            IN  [kind |-> "return", value |-> RMul(last_term, p0)]

(***************************************************************************)
(* priority_common: validation, prefix sums, aggregation                   *)
(***************************************************************************)
Return(v) == [kind |-> "return", value |-> v]

(* index of the first negative rate, 0 when there is none *)
RECURSIVE FirstNegative(_, _)
FirstNegative(rates, idx) ==
    IF idx > Len(rates) THEN 0
    ELSE IF rates[idx] < 0 THEN idx
    ELSE FirstNegative(rates, idx + 1)

coerce_arrival_rates(arrival_rates) ==
    IF arrival_rates = <<>> THEN Raise("ValueError", "arrival_rates nao pode ser vazio.")
    ELSE IF FirstNegative(arrival_rates, 1) # 0
         THEN RaiseClass("lambda_idx deve ser >= 0.", FirstNegative(arrival_rates, 1))
    ELSE Return(arrival_rates)

RECURSIVE SumInts(_, _)
SumInts(values, upto) == IF upto = 0 THEN 0 ELSE SumInts(values, upto - 1) + values[upto]

validate_common_inputs(rates, mu, s) ==
    LET clean_rates == coerce_arrival_rates(rates)
    IN  IF clean_rates.kind = "raise" THEN clean_rates
        ELSE IF mu <= 0 THEN Raise("ValueError", "mu deve ser > 0.")
        ELSE IF s <= 0 THEN Raise("ValueError", "s deve ser inteiro >= 1.")
        ELSE
          LET total_lambda == SumInts(rates, Len(rates))
              capacity == s * mu
          IN  IF total_lambda >= capacity /\ capacity > 0
              THEN Raise("ValueError", "Sistema instavel: lambda_total >= s*mu")
              ELSE clean_rates

prefix_sums(values) == [i \in 1 .. Len(values) |-> SumInts(values, i)]

(* mutant of SumField: only the last class is counted *)
SumField_last_only(class_metrics, field, upto) ==
    IF upto = 0 THEN Zero
    ELSE CASE field = "lambda" -> class_metrics[upto].lambda
           [] field = "L" -> class_metrics[upto].L
           [] field = "Lq" -> class_metrics[upto].Lq

RECURSIVE SumField(_, _, _)
(* sum(cls[field] for cls in class_metrics[:upto]) for the fields lambda, L, Lq *)
SumField(class_metrics, field, upto) ==
    IF upto = 0 THEN Zero
    ELSE RAdd(SumField(class_metrics, field, upto - 1),
              CASE field = "lambda" -> class_metrics[upto].lambda
                [] field = "L" -> class_metrics[upto].L
                [] field = "Lq" -> class_metrics[upto].Lq)

aggregate_totals(class_metrics, mu, s) ==
    LET m == Len(class_metrics)
        total_lambda == SumField(class_metrics, "lambda", m)
        total_L == SumField(class_metrics, "L", m)
        total_Lq == SumField(class_metrics, "Lq", m)
        service_time == IF mu > 0 THEN RDiv(total_lambda, Rat(mu)) ELSE Zero
        positive == RGt(total_lambda, Zero)
        W == IF positive THEN RDiv(total_L, total_lambda) ELSE Zero
        Wq == IF positive THEN RDiv(total_Lq, total_lambda) ELSE Zero
        rho == IF mu > 0 THEN RDiv(total_lambda, Rat(s * mu)) ELSE Zero
        a == RDiv(total_lambda, Rat(mu))
        term(k) == RDiv(RPow(a, k), Rat(factorial(k)))
        sum_terms == RSum([k \in 0 .. s - 1 |-> term(k)], 0, s)
        last_term == RDiv(RPow(a, s), RMul(Rat(factorial(s)), RSub(One, rho)))
        p0 == IF s = 1 THEN RSub(One, rho) ELSE RDiv(One, RAdd(sum_terms, last_term))
    IN  [kind |-> "return", rho |-> rho, p0 |-> p0, L |-> total_L, Lq |-> total_Lq,
         W |-> W, Wq |-> Wq, per_class |-> class_metrics,
         lambda_total |-> total_lambda, service_in_progress |-> service_time]

(* mutant of ZeroResult: no per-class record is returned *)
ZeroResult_without_classes(rates) ==
    [kind |-> "return", rho |-> Zero, p0 |-> One, L |-> Zero, Lq |-> Zero,
     W |-> Zero, Wq |-> Zero, per_class |-> <<>>,
     lambda_total |-> Zero, service_in_progress |-> Zero]

(* the record both preemptive engines return when every rate is 0 *)
ZeroResult(rates) ==
    [kind |-> "return", rho |-> Zero, p0 |-> One, L |-> Zero, Lq |-> Zero,
     W |-> Zero, Wq |-> Zero,
     per_class |-> [idx \in 1 .. Len(rates) |->
                      [priority |-> idx, lambda |-> Rat(rates[idx]), rho |-> Zero,
                       W |-> Zero, Wq |-> Zero, L |-> Zero, Lq |-> Zero]],
     lambda_total |-> Zero, service_in_progress |-> Zero]

(* first index of the loop at which Unstable holds, 0 when there is none *)
RECURSIVE FirstUnstable(_, _, _)
FirstUnstable(unstable, idx, m) ==
    IF idx > m THEN 0
    ELSE IF unstable[idx] THEN idx
    ELSE FirstUnstable(unstable, idx + 1, m)

(***************************************************************************)
(* mm1_priority_preemptive(arrival_rates, mu)                              *)
(***************************************************************************)
(* mutant of preemptive_W: the higher classes' load is left out *)
preemptive_W_own_prefix_only(mu, denom_prev, denom_cum) ==
    RDiv(Rat(mu), RMul(Rat(mu), denom_cum))

(* W = mu / (denom_prev * denom_cum) *)
preemptive_W(mu, denom_prev, denom_cum) ==
    RDiv(Rat(mu), RMul(denom_prev, denom_cum))

(* the record appended for class idx, whose time in the system is W *)
mm1_preemptive_class(idx, lam, cum_lambda, mu, W) ==
    LET Wq == RMax(RSub(W, RDiv(One, Rat(mu))), Zero)
        L_class == RMul(lam, W)
        Lq_class == RMul(lam, Wq)
        L_cum == RMul(cum_lambda, W)
        Lq_cum == RSub(L_cum, RDiv(cum_lambda, Rat(mu)))
    IN  [priority |-> idx, lambda |-> lam, lambda_cum |-> cum_lambda,
         rho |-> RDiv(lam, Rat(mu)), W |-> W, Wq |-> Wq,
         L |-> L_cum, Lq |-> Lq_cum,
         L_class |-> L_class, Lq_class |-> Lq_class]

RECURSIVE TotalClass(_, _, _)
(* total_L ("L") or total_Lq ("Lq") after the first upto rounds of the loop *)
TotalClass(class_metrics, field, upto) ==
    IF upto = 0 THEN Zero
    ELSE RAdd(TotalClass(class_metrics, field, upto - 1),
              IF field = "L" THEN class_metrics[upto].L_class
              ELSE class_metrics[upto].Lq_class)

(* what mm1_priority_preemptive does after its loop *)
mm1_preemptive_totals(mu, total_lambda, class_metrics) ==
    LET m == Len(class_metrics)
        total_L == TotalClass(class_metrics, "L", m)
        total_Lq == TotalClass(class_metrics, "Lq", m)
        rho_total == RDiv(Rat(total_lambda), Rat(mu))
    IN  IF RGe(rho_total, One)
        THEN Raise("ValueError", "Sistema instavel: lambda_total >= mu.")
        ELSE [kind |-> "return", rho |-> rho_total,
              p0 |-> RSub(One, rho_total), L |-> total_L, Lq |-> total_Lq,
              W |-> RDiv(total_L, Rat(total_lambda)),
              Wq |-> RDiv(total_Lq, Rat(total_lambda)),
              per_class |-> class_metrics,
              lambda_total |-> Rat(total_lambda),
              service_in_progress |-> RDiv(Rat(total_lambda), Rat(mu))]

mm1_priority_preemptive(arrival_rates, mu) ==
    LET valid == validate_common_inputs(arrival_rates, mu, 1)
    IN  IF valid.kind = "raise" THEN valid
        ELSE
          LET rates == valid.value
              m == Len(rates)
              prefix == prefix_sums(rates)
              total_lambda == prefix[m]
              prev_lambda(idx) == IF idx > 1 THEN prefix[idx - 1] ELSE 0
              Unstable(idx) == mu - prev_lambda(idx) <= 0 \/ mu - prefix[idx] <= 0
              bad == FirstUnstable([idx \in 1 .. m |-> Unstable(idx)], 1, m)
              class(idx) ==
                LET lam == Rat(rates[idx])
                    cum_lambda == Rat(prefix[idx])
                    denom_prev == Rat(mu - prev_lambda(idx))
                    denom_cum == Rat(mu - prefix[idx])
                IN  mm1_preemptive_class(idx, lam, cum_lambda, mu,
                                         preemptive_W(mu, denom_prev, denom_cum))
          IN  IF total_lambda = 0 THEN ZeroResult(rates)
              ELSE IF bad # 0 THEN RaiseClass("A subfila ate a classe ficou instavel", bad)
              ELSE mm1_preemptive_totals(mu, total_lambda,
                                         [idx \in 1 .. m |-> class(idx)])

(***************************************************************************)
(* mms_priority_preemptive(arrival_rates, mu, s)                           *)
(***************************************************************************)
(* mutant of Numer: the weighted times of the earlier classes are not      *)
(* subtracted                                                              *)
Numer_unsubtracted(start, rates, W_list, upto) == start

RECURSIVE Numer(_, _, _, _)
(* numer after the first upto rounds of "numer -= rates[j] * W_list[j]" *)
Numer(start, rates, W_list, upto) ==
    IF upto = 0 THEN start
    ELSE RSub(Numer(start, rates, W_list, upto - 1),
              RMul(Rat(rates[upto]), W_list[upto]))

(* the record appended for class idx, whose time in the system is Wk *)
preemptive_class(idx, lam, cum_lambda, mu, s, Wk, erlang_c_value) ==
    LET Wqk == RMax(RSub(Wk, RDiv(One, Rat(mu))), Zero)
        L_cum == RMul(Rat(cum_lambda), Wk)
        Lq_cum == RMax(RSub(L_cum, RDiv(Rat(cum_lambda), Rat(mu))), Zero)
        L_class == RMul(Rat(lam), Wk)
        Lq_class == RMul(Rat(lam), Wqk)
    IN  [priority |-> idx, lambda |-> Rat(lam), lambda_cum |-> Rat(cum_lambda),
         rho |-> RDiv(Rat(lam), Rat(s * mu)),
         W |-> Wk, Wq |-> Wqk, L |-> L_cum, Lq |-> Lq_cum,
         L_class |-> L_class, Lq_class |-> Lq_class,
         Pwait |-> erlang_c_value]

(* one pass of the loop body for class idx, given erlang_c(cum_lambda, mu,  *)
(* s) and mms(cum_lambda, mu, s): the record of the class, or the exception *)
(* that ends the call                                                      *)
preemptive_round(rates, prefix, mu, s, idx, W_list, erlang_c_value, mms_cum) ==
    IF erlang_c_value.kind = "raise" THEN erlang_c_value
    ELSE IF mms_cum.kind = "raise" THEN mms_cum
    ELSE IF idx > 1 /\ rates[idx] = 0
         THEN Raise("ZeroDivisionError", "float division by zero")
    ELSE
      LET lam == rates[idx]
          cum_lambda == prefix[idx]
          Wbar_cum == mms_cum.W
          numer == Numer(RMul(Rat(cum_lambda), Wbar_cum), rates, W_list, idx - 1)
          Wk == IF idx = 1 THEN Wbar_cum ELSE RDiv(numer, Rat(lam))
      IN  Return(preemptive_class(idx, lam, cum_lambda, mu, s, Wk,
                                  erlang_c_value.value))

(* the pass of class idx of the call in progress *)
preemptive_round_at(rates, prefix, mu, s, idx, W_list) ==
    preemptive_round(rates, prefix, mu, s, idx, W_list,
                     erlang_c(prefix[idx], mu, s), mms(prefix[idx], mu, s))

RECURSIVE PreemptiveLoop(_, _, _, _, _, _, _)
(* W_list.append(Wk), class_metrics.append(...) after the pass round of     *)
(* class idx, and then the passes after it                                 *)
PreemptiveRound(rates, prefix, mu, s, idx, W_list, class_metrics, round) ==
    IF round.kind = "raise" THEN round
    ELSE PreemptiveLoop(rates, prefix, mu, s, idx + 1,
                        Append(W_list, round.value.W),
                        Append(class_metrics, round.value))

(* the loop over the classes from index idx on, W_list and class_metrics   *)
(* holding what the earlier rounds appended                                *)
PreemptiveLoop(rates, prefix, mu, s, idx, W_list, class_metrics) ==
    IF idx > Len(rates) THEN Return(class_metrics)
    ELSE PreemptiveRound(rates, prefix, mu, s, idx, W_list, class_metrics,
                         preemptive_round_at(rates, prefix, mu, s, idx, W_list))

(* the result of mms_priority_preemptive for total_lambda > 0, given        *)
(* totals_mms = mms(total_lambda, mu, s) and the outcome of the loop        *)
preemptive_totals(mu, s, total_lambda, totals_mms, loop) ==
    IF totals_mms.kind = "raise" THEN totals_mms
    ELSE IF loop.kind = "raise" THEN loop
    ELSE [kind |-> "return",
          rho |-> RDiv(Rat(total_lambda), Rat(s * mu)),
          p0 |-> totals_mms.p0, L |-> totals_mms.L, Lq |-> totals_mms.Lq,
          W |-> totals_mms.W, Wq |-> totals_mms.Wq,
          per_class |-> loop.value,
          lambda_total |-> Rat(total_lambda),
          service_in_progress |-> RDiv(Rat(total_lambda), Rat(mu))]

(* the local variables of a call for s > 1 that has reached its loop, idx   *)
(* being the class the next pass works on                                  *)
preemptive_locals(rates, mu, s, totals_mms) ==
    [kind |-> "loop", rates |-> rates, prefix |-> prefix_sums(rates),
     mu |-> mu, s |-> s, totals_mms |-> totals_mms,
     idx |-> 1, W_list |-> <<>>, class_metrics |-> <<>>]

(* the loop is reached when mms(total_lambda, mu, s) has returned *)
preemptive_started(rates, mu, s, totals_mms) ==
    IF totals_mms.kind = "raise" THEN totals_mms
    ELSE preemptive_locals(rates, mu, s, totals_mms)

(* the call for s > 1 up to its loop: the exception or the result that ends *)
(* it before the loop, or the local variables the loop starts with         *)
preemptive_entered(valid, mu, s) ==
    IF valid.kind = "raise" THEN valid
    ELSE IF SumInts(valid.value, Len(valid.value)) = 0 THEN ZeroResult(valid.value)
    ELSE preemptive_started(valid.value, mu, s,
                            mms(SumInts(valid.value, Len(valid.value)), mu, s))

(* the local variables after the pass round of class idx *)
preemptive_appended(locals, round) ==
    [locals EXCEPT !.idx = @ + 1,
                   !.W_list = Append(@, round.value.W),
                   !.class_metrics = Append(@, round.value)]

(* the mapping returned after the last pass *)
preemptive_returned(locals) ==
    preemptive_totals(locals.mu, locals.s, locals.prefix[Len(locals.rates)],
                      locals.totals_mms, Return(locals.class_metrics))

(* mms_priority_preemptive for s > 1, from the outcome of the validation on *)
preemptive_validated(valid, mu, s) ==
    LET entered == preemptive_entered(valid, mu, s)
    IN  IF entered.kind = "loop"
        THEN preemptive_totals(mu, s, entered.prefix[Len(entered.rates)],
                               entered.totals_mms,
                               PreemptiveLoop(entered.rates, entered.prefix, mu, s,
                                              1, <<>>, <<>>))
        ELSE entered

mms_priority_preemptive(arrival_rates, mu, s) ==
    IF s = 1 THEN mm1_priority_preemptive(arrival_rates, mu)
    ELSE preemptive_validated(validate_common_inputs(arrival_rates, mu, s), mu, s)

(***************************************************************************)
(* mm1_priority_non_preemptive(arrival_rates, mu)                          *)
(***************************************************************************)
(* mutant of non_preemptive_Wq: the delay is halved *)
non_preemptive_Wq_scaled(total_lambda, denom_prev, denom_cum) ==
    RDiv(Rat(total_lambda), RMul(Rat(2), RMul(denom_prev, denom_cum)))

(* Wq = total_lambda / (denom_prev * denom_cum) *)
non_preemptive_Wq(total_lambda, denom_prev, denom_cum) ==
    RDiv(Rat(total_lambda), RMul(denom_prev, denom_cum))

(* W = Wq + 1.0 / mu *)
non_preemptive_W(Wq, mu) == RAdd(Wq, RDiv(One, Rat(mu)))

(* the record appended for class idx, whose time in the queue is Wq *)
mm1_non_preemptive_class(idx, lam, mu, Wq) ==
    LET W == non_preemptive_W(Wq, mu)
        Lq == RMul(lam, Wq)
        L == RMul(lam, W)
    IN  [priority |-> idx, lambda |-> lam, rho |-> RDiv(lam, Rat(mu)),
         W |-> W, Wq |-> Wq, L |-> L, Lq |-> Lq]

mm1_priority_non_preemptive(arrival_rates, mu) ==
    LET valid == validate_common_inputs(arrival_rates, mu, 1)
    IN  IF valid.kind = "raise" THEN valid
        ELSE
          LET rates == valid.value
              m == Len(rates)
              prefix == prefix_sums(rates)
              total_lambda == prefix[m]
              higher_lambda(idx) == IF idx > 1 THEN prefix[idx - 1] ELSE 0
              Unstable(idx) == mu - prefix[idx] <= 0 \/ mu - higher_lambda(idx) <= 0
              bad == FirstUnstable([idx \in 1 .. m |-> Unstable(idx)], 1, m)
              class(idx) ==
                LET lam == Rat(rates[idx])
                    denom_cum == Rat(mu - prefix[idx])
                    denom_prev == Rat(mu - higher_lambda(idx))
                IN  mm1_non_preemptive_class(
                        idx, lam, mu,
                        non_preemptive_Wq(total_lambda, denom_prev, denom_cum))
          IN  IF total_lambda = 0 THEN mm1_priority_preemptive(arrival_rates, mu)
              ELSE IF bad # 0 THEN RaiseClass("A subfila ate a classe ficou instavel", bad)
              ELSE aggregate_totals([idx \in 1 .. m |-> class(idx)], mu, 1)

(***************************************************************************)
(* mms_priority_non_preemptive(arrival_rates, mu, s)                       *)
(***************************************************************************)
(* base_factor, the same for every class *)
non_preemptive_base_factor(total_lambda, mu, s) ==
    LET r == RDiv(Rat(total_lambda), Rat(mu))
        term(j) == RDiv(RPow(r, j), Rat(factorial(j)))
        sum_terms == RSum([k \in 0 .. s - 1 |-> term(k)], 0, s)
    IN  IF r = Zero THEN Rat(s * mu)
        ELSE RAdd(RMul(RDiv(Rat(factorial(s) * (s * mu - total_lambda)),
                            RPow(r, s)),
                       sum_terms),
                  Rat(s * mu))

(* W = 1.0 / (base_factor * factor_prev * factor_cum) + 1.0 / mu *)
mms_non_preemptive_W(mu, base_factor, factor_prev, factor_cum) ==
    RAdd(RDiv(One, RMul(RMul(base_factor, factor_prev), factor_cum)),
         RDiv(One, Rat(mu)))

(* the record appended for class idx, whose time in the system is W *)
mms_non_preemptive_class(idx, lam, mu, s, base_factor, W) ==
    LET Wq == RMax(RSub(W, RDiv(One, Rat(mu))), Zero)
        L == RMul(lam, W)
        Lq == RMax(RSub(L, RDiv(lam, Rat(mu))), Zero)
    IN  [priority |-> idx, lambda |-> lam,
         rho |-> RDiv(lam, Rat(s * mu)),
         W |-> W, Wq |-> Wq, L |-> L, Lq |-> Lq,
         base_factor |-> base_factor]

(* the loop over the classes and the aggregation, for total_lambda > 0 *)
mms_non_preemptive_loop(rates, mu, s, base_factor) ==
    LET m == Len(rates)
        prefix == prefix_sums(rates)
        prev_lambda(idx) == IF idx > 1 THEN prefix[idx - 1] ELSE 0
        factor_prev(idx) == RSub(One, RDiv(Rat(prev_lambda(idx)), Rat(s * mu)))
        factor_cum(idx) == RSub(One, RDiv(Rat(prefix[idx]), Rat(s * mu)))
        Unstable(idx) ==
            RLe(factor_prev(idx), Zero) \/ RLe(factor_cum(idx), Zero)
        bad == FirstUnstable([idx \in 1 .. m |-> Unstable(idx)], 1, m)
        class(idx) ==
            mms_non_preemptive_class(
                idx, Rat(rates[idx]), mu, s, base_factor,
                mms_non_preemptive_W(mu, base_factor, factor_prev(idx), factor_cum(idx)))
    IN  IF bad # 0
        THEN RaiseClass("A subfila ate a classe ficou instavel", bad)
        ELSE aggregate_totals([idx \in 1 .. m |-> class(idx)], mu, s)

(* mms_priority_non_preemptive for s > 1, from the outcome of the validation on *)
non_preemptive_validated(arrival_rates, valid, mu, s) ==
    IF valid.kind = "raise" THEN valid
    ELSE IF SumInts(valid.value, Len(valid.value)) = 0
         THEN mms_priority_preemptive(arrival_rates, mu, s)
    ELSE mms_non_preemptive_loop(
             valid.value, mu, s,
             non_preemptive_base_factor(SumInts(valid.value, Len(valid.value)), mu, s))

mms_priority_non_preemptive(arrival_rates, mu, s) ==
    IF s = 1 THEN mm1_priority_non_preemptive(arrival_rates, mu)
    ELSE non_preemptive_validated(
             arrival_rates, validate_common_inputs(arrival_rates, mu, s), mu, s)

(***************************************************************************)
(* mm1k(lmbda, mu, K, n) and mmsk(lmbda, mu, s, K, n).  The optional query *)
(* n is the pair has_n, n (has_n false: n is None).  A returned record     *)
(* carries, besides the fields of the Python mapping, pn_func: the values  *)
(* of the call's closure pn_func on 0 .. K, the state probabilities the    *)
(* model reports.                                                          *)
(***************************************************************************)
(* abs(x) < 10^-digits, for digits >= 5: Abs(x[1]) * 10^digits < x[2],     *)
(* computed by two floor divisions to stay within the integers of the model *)
Within(x, digits) ==
    x[1] = 0 \/ 10^(digits - 5) <= ((x[2] - 1) \div Abs(x[1])) \div 10^5

(* the record of the lmbda == 0 branch of mm1k and mmsk *)
EmptySystem(has_n, n) ==
    LET base == [kind |-> "return", rho |-> Zero, p0 |-> One, L |-> Zero,
                 Lq |-> Zero, W |-> Zero, Wq |-> Zero, lambda_eff |-> Zero]
    IN  IF has_n
        THEN [f \in DOMAIN base \cup {"pn"} |->
                IF f = "pn" THEN (IF n = 0 THEN One ELSE Zero) ELSE base[f]]
        ELSE base

(* result["pn"] = pn_func(n) added to the record, or the error pn_func raises *)
WithPn(result, has_n, n, K) ==
    IF ~has_n THEN result
    ELSE IF n < 0 \/ n > K THEN Raise("ValueError", "n deve ser inteiro entre 0 e K")
    ELSE [f \in DOMAIN result \cup {"pn"} |->
            IF f = "pn" THEN result.pn_func[n] ELSE result[f]]

(* mutant of mm1k_p0: the geometric series runs one state too far *)
mm1k_p0_one_state_more(rho, K) ==
    RDiv(RSub(One, rho), RSub(One, RPow(rho, K + 2)))

(* p0 = (1 - rho) / (1 - rho ** (K + 1)) *)
mm1k_p0(rho, K) == RDiv(RSub(One, rho), RSub(One, RPow(rho, K + 1)))

(* L of the branch rho != 1 *)
mm1k_L(rho, K) ==
    RDiv(RMul(rho, RAdd(RSub(One, RMul(Rat(K + 1), RPow(rho, K))),
                        RMul(Rat(K), RPow(rho, K + 1)))),
         RMul(RSub(One, rho), RSub(One, RPow(rho, K + 1))))

(* the record mm1k builds from p0, L and the values of pn_func *)
mm1k_result(lmbda, rho, K, p0, L, pn_values) ==
    LET pK == pn_values[K]
        lambda_eff == RMul(Rat(lmbda), RSub(One, pK))
        Lq == RSub(L, RSub(One, p0))
        W == IF RGt(lambda_eff, Zero) THEN RDiv(L, lambda_eff) ELSE Zero
        Wq == IF RGt(lambda_eff, Zero) THEN RDiv(Lq, lambda_eff) ELSE Zero
    IN  [kind |-> "return", rho |-> rho, p0 |-> p0, L |-> L, Lq |-> Lq,
         W |-> W, Wq |-> Wq, lambda_eff |-> lambda_eff, pK |-> pK,
         pn_func |-> pn_values]

(* mm1k for lmbda > 0, from p0 on; balanced is abs(rho - 1.0) < 1e-8 *)
mm1k_states(lmbda, K, has_n, n, rho, balanced, p0) ==
    LET pn_func(n_val) == IF balanced THEN p0 ELSE RMul(p0, RPow(rho, n_val))
        L == IF balanced THEN RDiv(Rat(K), Rat(2)) ELSE mm1k_L(rho, K)
    IN  WithPn(mm1k_result(lmbda, rho, K, p0, L,
                           [n_val \in 0 .. K |-> pn_func(n_val)]),
               has_n, n, K)

(* mm1k for lmbda > 0, from rho on *)
mm1k_busy(lmbda, K, has_n, n, rho, balanced) ==
    mm1k_states(lmbda, K, has_n, n, rho, balanced,
                IF balanced THEN RDiv(One, Rat(K + 1)) ELSE mm1k_p0(rho, K))

mm1k(lmbda, mu, K, has_n, n) ==
    IF lmbda < 0 THEN Raise("ValueError", "lambda (lmbda) deve ser >= 0")
    ELSE IF mu <= 0 THEN Raise("ValueError", "mu deve ser > 0")
    ELSE IF K < 0 THEN Raise("ValueError", "K deve ser inteiro >= 0")
    ELSE IF lmbda = 0 THEN EmptySystem(has_n, n)
    ELSE mm1k_busy(lmbda, K, has_n, n, RDiv(Rat(lmbda), Rat(mu)),
                   Within(RSub(RDiv(Rat(lmbda), Rat(mu)), One), 8))

(* mutant of mmsk_tail: the last term of the truncated queue is dropped *)
mmsk_tail_without_last_term(rho, K, s) ==
    RSub(One, RPow(rho, K - s))

(* tail = 1 - rho ** (K - s) - (K - s) * (1 - rho) * rho ** (K - s) *)
mmsk_tail(rho, K, s) ==
    RSub(RSub(One, RPow(rho, K - s)),
         RMul(RMul(Rat(K - s), RSub(One, rho)), RPow(rho, K - s)))

(* a ** n_state / factorial(n_state), the weight of a state n_state <= s *)
mmsk_head(a, n_state) == RDiv(RPow(a, n_state), Rat(factorial(n_state)))

(* a ** n_state / (factorial(s) * s ** (n_state - s)), for n_state > s *)
mmsk_queue(a, s, n_state) ==
    RDiv(RPow(a, n_state), Rat(factorial(s) * s^(n_state - s)))

(* p0 = 1.0 / (sum1 + sum2) *)
mmsk_p0(a, s, K) ==
    LET sum1 == RSum([n_state \in 0 .. s |-> mmsk_head(a, n_state)], 0, s + 1)
        sum2 == RSum([n_state \in s + 1 .. K |-> mmsk_queue(a, s, n_state)],
                     s + 1, K + 1)
    IN  RDiv(One, RAdd(sum1, sum2))

(* the closure pn_func, past its range check *)
mmsk_pn(a, s, p0, n_val) ==
    IF n_val <= s THEN RMul(mmsk_head(a, n_val), p0)
    ELSE RMul(mmsk_queue(a, s, n_val), p0)

(* L = L_partial + Lq + s * prob_busy *)
mmsk_L(s, Lq, pn_values) ==
    LET L_partial == RSum([nv \in 0 .. s - 1 |-> RMul(Rat(nv), pn_values[nv])], 0, s)
        prob_busy == RSub(One, RSum(pn_values, 0, s))
    IN  RAdd(RAdd(L_partial, Lq), RMul(Rat(s), prob_busy))

(* the record mmsk builds from p0, Lq, L and the values of pn_func *)
mmsk_result(lmbda, rho, K, p0, Lq, L, pn_values) ==
    LET pK == pn_values[K]
        lambda_eff == RMul(Rat(lmbda), RSub(One, pK))
        W == IF RGt(lambda_eff, Zero) THEN RDiv(L, lambda_eff) ELSE Zero
        Wq == IF RGt(lambda_eff, Zero) THEN RDiv(Lq, lambda_eff) ELSE Zero
    IN  [kind |-> "return", rho |-> rho, p0 |-> p0, L |-> L,
         Lq |-> Lq, W |-> W, Wq |-> Wq,
         lambda_eff |-> lambda_eff, pK |-> pK,
         pn_func |-> pn_values]

(* mmsk past the rho = 1 check, from Lq and the values of pn_func on *)
mmsk_metrics(lmbda, s, K, has_n, n, rho, p0, Lq, pn_values) ==
    WithPn(mmsk_result(lmbda, rho, K, p0, Lq, mmsk_L(s, Lq, pn_values), pn_values),
           has_n, n, K)

(* mmsk for lmbda > 0, from p0 on *)
mmsk_states(lmbda, s, K, has_n, n, rho, a, p0) ==
    IF Within(RSub(One, rho), 10)
    THEN Raise("ValueError", "Caso rho = 1 nao suportado para Lq em M/M/s/K.")
    ELSE
      LET factor == RDiv(RMul(RMul(p0, RPow(a, s)), rho),
                         RMul(Rat(factorial(s)), RPow(RSub(One, rho), 2)))
          tail == mmsk_tail(rho, K, s)
      IN  mmsk_metrics(lmbda, s, K, has_n, n, rho, p0, RMul(factor, tail),
                       [n_val \in 0 .. K |-> mmsk_pn(a, s, p0, n_val)])

mmsk(lmbda, mu, s, K, has_n, n) ==
    IF lmbda < 0 THEN Raise("ValueError", "lambda (lmbda) deve ser >= 0")
    ELSE IF mu <= 0 THEN Raise("ValueError", "mu deve ser > 0")
    ELSE IF s <= 0 THEN Raise("ValueError", "s deve ser inteiro >= 1")
    ELSE IF K < 0 THEN Raise("ValueError", "K deve ser inteiro >= 0")
    ELSE IF K < s THEN Raise("ValueError", "K deve ser >= s")
    ELSE IF lmbda = 0 THEN EmptySystem(has_n, n)
    ELSE
      LET rho == RDiv(Rat(lmbda), Rat(s * mu))
          a == RDiv(Rat(lmbda), Rat(mu))
      IN  mmsk_states(lmbda, s, K, has_n, n, rho, a, mmsk_p0(a, s, K))

(***************************************************************************)
(* mm1n(lmbda, mu, N, n) and mmsn(lmbda, mu, s, N, n): finite population.  *)
(* The argument t is accepted and never read.  A returned record carries,  *)
(* besides the fields of the Python mapping, the list of the state         *)
(* probabilities the call computed: pn_values (mm1n) or p (mmsn).          *)
(***************************************************************************)
Min(a, b) == IF a <= b THEN a ELSE b

RECURSIVE comb_num(_, _, _)
(* num after the first upto rounds of "num *= n - (k - i)" *)
comb_num(n, k, upto) ==
    IF upto = 0 THEN 1 ELSE comb_num(n, k, upto - 1) * (n - (k - upto))

comb(n, k) ==
    IF k < 0 \/ k > n THEN 0
    ELSE IF k = 0 \/ k = n THEN 1
    ELSE comb_num(n, k, k) \div factorial(k)

(* the record of the N == 0 branch of mm1n *)
NoPopulation(has_n, n) ==
    LET base == [kind |-> "return", rho |-> Zero, p0 |-> One, L |-> Zero,
                 Lq |-> Zero, W |-> Zero, Wq |-> Zero, lambda_eff |-> Zero,
                 L_operational |-> Zero]
    IN  IF has_n
        THEN [f \in DOMAIN base \cup {"pn"} |->
                IF f = "pn" THEN (IF n = 0 THEN One ELSE Zero) ELSE base[f]]
        ELSE base

(* result["pn"] = values[n] added to the record, or the error of a query   *)
(* outside 0 .. N                                                          *)
WithPnOf(result, values, has_n, n, N, msg) ==
    IF ~has_n THEN result
    ELSE IF n < 0 \/ n > N THEN Raise("ValueError", msg)
    ELSE [f \in DOMAIN result \cup {"pn"} |->
            IF f = "pn" THEN values[n] ELSE result[f]]

(* _comb(N, k) * (r ** k) *)
mm1n_term(N, r, k) == RMul(Rat(comb(N, k)), RPow(r, k))

(* p0 = 1.0 / denom *)
mm1n_p0(N, r) == RDiv(One, RSum([k \in 0 .. N |-> mm1n_term(N, r, k)], 0, N + 1))

(* L = sum(k * pn_values[k] for k in range(N + 1)) *)
mm1n_L(N, pn_values) ==
    RSum([k \in 0 .. N |-> RMul(Rat(k), pn_values[k])], 0, N + 1)

(* the record mm1n builds from p0, the state probabilities and L *)
mm1n_result(lmbda, mu, N, p0, pn_values, L) ==
    LET Lq == RSub(L, RSub(One, p0))
        lambda_eff == RMul(Rat(lmbda), RSub(Rat(N), L))
        W == IF RGt(lambda_eff, Zero) THEN RDiv(L, lambda_eff) ELSE Zero
        Wq == IF RGt(lambda_eff, Zero) THEN RDiv(Lq, lambda_eff) ELSE Zero
    IN  [kind |-> "return", rho |-> RDiv(Rat(N * lmbda), Rat(mu)), p0 |-> p0,
         L |-> L, Lq |-> Lq, W |-> W, Wq |-> Wq, lambda_eff |-> lambda_eff,
         L_operational |-> RSub(Rat(N), L), pn_values |-> pn_values]

(* mm1n for N > 0, from the state probabilities on *)
mm1n_metrics(lmbda, mu, N, has_n, n, p0, pn_values) ==
    WithPnOf(mm1n_result(lmbda, mu, N, p0, pn_values, mm1n_L(N, pn_values)),
             pn_values, has_n, n, N, "n deve ser inteiro entre 0 e N")

(* mm1n for N > 0, from p0 on *)
mm1n_states(lmbda, mu, N, has_n, n, r, p0) ==
    mm1n_metrics(lmbda, mu, N, has_n, n, p0,
                 [k \in 0 .. N |-> RMul(mm1n_term(N, r, k), p0)])

mm1n(lmbda, mu, N, has_n, n) ==
    IF lmbda < 0 THEN Raise("ValueError", "lambda (lmbda) deve ser >= 0")
    ELSE IF mu <= 0 THEN Raise("ValueError", "mu deve ser > 0")
    ELSE IF N < 0 THEN Raise("ValueError", "N deve ser inteiro >= 0")
    ELSE IF N = 0 THEN NoPopulation(has_n, n)
    ELSE mm1n_states(lmbda, mu, N, has_n, n, RDiv(Rat(lmbda), Rat(mu)),
                     mm1n_p0(N, RDiv(Rat(lmbda), Rat(mu))))

(* alpha[i] = lambdas[i - 1] / mus[i], for 1 <= i <= N *)
mmsn_alpha(lmbda, mu, s, N, i) ==
    RDiv(Rat((N - (i - 1)) * lmbda), Rat(Min(i, s) * mu))

RECURSIVE mmsn_products(_, _, _, _, _)
(* products[i]: prod after the first i rounds of "prod *= alpha[i]" *)
mmsn_products(lmbda, mu, s, N, i) ==
    IF i = 0 THEN One
    ELSE RMul(mmsn_products(lmbda, mu, s, N, i - 1), mmsn_alpha(lmbda, mu, s, N, i))

(* p0 = 1.0 / denom *)
mmsn_p0(N, products) == RDiv(One, RSum(products, 0, N + 1))

(* the record mmsn builds from the state probabilities, L and busy_servers *)
mmsn_result(lmbda, s, N, p, L, busy_servers) ==
    LET Lq == RSub(L, busy_servers)
        lambda_eff == RMul(Rat(lmbda), RSub(Rat(N), L))
        W == IF RGt(lambda_eff, Zero) THEN RDiv(L, lambda_eff) ELSE Zero
        Wq == IF RGt(lambda_eff, Zero) THEN RDiv(Lq, lambda_eff) ELSE Zero
    IN  [kind |-> "return", rho |-> RDiv(busy_servers, Rat(s)), p0 |-> p[0],
         L |-> L, Lq |-> Lq, W |-> W, Wq |-> Wq, lambda_eff |-> lambda_eff,
         L_operational |-> RSub(Rat(N), L),
         any_idle_server |-> RSum(p, 0, Min(s, N + 1)),
         p |-> p]

(* mmsn for N > 0, from the state probabilities on *)
mmsn_metrics(lmbda, s, N, has_n, n, p) ==
    WithPnOf(mmsn_result(lmbda, s, N, p,
                         RSum([i \in 0 .. N |-> RMul(Rat(i), p[i])], 0, N + 1),
                         RSum([i \in 0 .. N |-> RMul(Rat(Min(i, s)), p[i])], 0, N + 1)),
             p, has_n, n, N, "n deve estar entre 0 e N")

(* mmsn for N > 0, from products and p0 on *)
mmsn_states(lmbda, s, N, has_n, n, products, p0) ==
    mmsn_metrics(lmbda, s, N, has_n, n, [i \in 0 .. N |-> RMul(p0, products[i])])

(* mmsn for N > 0, from products on *)
mmsn_populated(lmbda, s, N, has_n, n, products) ==
    mmsn_states(lmbda, s, N, has_n, n, products, mmsn_p0(N, products))

(* the record of the N == 0 branch of mmsn *)
mmsn_no_population(has_n, n) ==
    LET base == [kind |-> "return", rho |-> Zero, p0 |-> One, L |-> Zero,
                 Lq |-> Zero, W |-> Zero, Wq |-> Zero, lambda_eff |-> Zero,
                 L_operational |-> Zero, any_idle_server |-> One]
    IN  IF has_n
        THEN [f \in DOMAIN base \cup {"pn"} |->
                IF f = "pn" THEN (IF n = 0 THEN One ELSE Zero) ELSE base[f]]
        ELSE base

mmsn(lmbda, mu, s, N, has_n, n) ==
    IF lmbda < 0 THEN Raise("ValueError", "lambda (lmbda) deve ser >= 0")
    ELSE IF mu <= 0 THEN Raise("ValueError", "mu deve ser > 0")
    ELSE IF s <= 0 THEN Raise("ValueError", "s deve ser inteiro >= 1")
    ELSE IF N < 0 THEN Raise("ValueError", "N deve ser inteiro >= 0")
    ELSE IF N = 0 THEN mmsn_no_population(has_n, n)
    ELSE mmsn_populated(lmbda, s, N, has_n, n,
                        [i \in 0 .. N |-> mmsn_products(lmbda, mu, s, N, i)])

(***************************************************************************)
(* forms.mg1.Mg1: the class behind the M/G/1 tab.  Its arguments lam, mi,  *)
(* var and the elements of lam_list are floats, here fractions.  The       *)
(* object the constructor leaves is a record of its attributes.            *)
(***************************************************************************)
RECURSIVE SumRats(_, _)
(* sum(lam_list[:upto]) *)
SumRats(values, upto) ==
    IF upto = 0 THEN Zero ELSE RAdd(SumRats(values, upto - 1), values[upto])

(* the attributes set by Mg1.__init__ once lam_list is settled *)
Mg1_attributes(mi, var, lam, lam_list, has_list) ==
    IF RGe(RDiv(lam, mi), One)
    THEN Raise("ValueError", "O sistema esta instavel")
    ELSE [kind |-> "return", mi |-> mi, var |-> var,
          e_s2 |-> RAdd(var, RPow(RDiv(One, mi), 2)),
          lam |-> lam, has_list |-> has_list, lam_list |-> lam_list,
          rho_list |-> [i \in 1 .. Len(lam_list) |-> RDiv(lam_list[i], mi)],
          rho |-> RDiv(lam, mi)]

Mg1_init(lam, mi, var, lam_list) ==
    IF RLe(mi, Zero)
    THEN Raise("ValueError", "mi (taxa de atendimento) deve ser um valor positivo.")
    ELSE IF RLt(var, Zero)
    THEN Raise("ValueError", "var (variancia do tempo de atendimento) nao pode ser negativa.")
    ELSE IF Len(lam_list) > 1
    THEN Mg1_attributes(mi, var, SumRats(lam_list, Len(lam_list)), lam_list, TRUE)
    ELSE Mg1_attributes(mi, var, lam, <<>>, FALSE)

(* the tuple Mg1.mg1 returns, from lq on *)
Mg1_tuple(self, lq) ==
    LET wq == IF self.lam # Zero THEN RDiv(lq, self.lam) ELSE Zero
    IN  [kind |-> "return", rho |-> self.rho, L |-> RAdd(self.rho, lq), Lq |-> lq,
         W |-> RAdd(wq, RDiv(One, self.mi)), Wq |-> wq,
         p0 |-> RSub(One, self.rho), e_s2 |-> self.e_s2]

(* Mg1.mg1(self); the record adds the attribute e_s2 the tuple was computed from *)
Mg1_mg1(self) ==
    Mg1_tuple(self, RDiv(RMul(RPow(self.lam, 2), self.e_s2),
                         RMul(Rat(2), RSub(One, self.rho))))

(* Mg1(lam, mi, var).mg1(): the constructor and then the method *)
Mg1_construct_mg1(self) == IF self.kind = "raise" THEN self ELSE Mg1_mg1(self)

(***************************************************************************)
(* forms.prioridadesSemInterrup: the form's own computation of the         *)
(* non-preemptive priority model.  proporcoes_str is modelled by its       *)
(* comma-separated fields: a blank field, a field float() rejects, or a    *)
(* field that reads as a number.                                           *)
(***************************************************************************)
RECURSIVE times_ten(_, _, _, _, _)
(* <<(10 * rem) \div d, (10 * rem) % d>> for 0 <= rem < d, by ten additions *)
(* of rem modulo d, so that no intermediate value exceeds d                 *)
times_ten(digit, acc, rem, d, left) ==
    IF left = 0 THEN <<digit, acc>>
    ELSE IF acc >= d - rem THEN times_ten(digit + 1, acc - (d - rem), rem, d, left - 1)
    ELSE times_ten(digit, acc + rem, rem, d, left - 1)

RECURSIVE decimal_step(_, _, _, _)
RECURSIVE decimal_next(_, _, _, _)
(* long division: <<digits, rem>> after `places` more decimal digits of rem / d *)
decimal_step(digits, rem, d, places) ==
    IF places = 0 THEN <<digits, rem>>
    ELSE decimal_next(digits, times_ten(0, 0, rem, d, 10), d, places)

decimal_next(digits, step, d, places) ==
    decimal_step(digits * 10 + step[1], step[2], d, places - 1)

(* units / 10^6 or the next multiple of 10^-6, whichever is nearer; a tie  *)
(* goes to the even one                                                    *)
round_nearest(units, rem, d) ==
    Norm(IF rem > d - rem \/ (rem = d - rem /\ units % 2 = 1) THEN units + 1 ELSE units,
         10^6)

round_from(whole, frac, d) == round_nearest(whole * 10^6 + frac[1], frac[2], d)

(* round(valor, 6) *)
round6(valor) ==
    round_from(valor[1] \div valor[2], decimal_step(0, valor[1] % valor[2], valor[2], 6),
               valor[2])

(* arredondar on the mapping of one class *)
arredondar_class(metrics) == [f \in DOMAIN metrics |-> round6(metrics[f])]

(* arredondar on the mapping "Classe i" -> metrics *)
arredondar(resultados) ==
    [kind |-> "return",
     classes |-> [i \in 1 .. Len(resultados) |-> arredondar_class(resultados[i])]]

(* a mapping with the single key "Erro" *)
Erro(msg) == [kind |-> "return", Erro |-> msg]

RECURSIVE parse_proporcoes(_, _)
(* [float(x.strip()) for x in fields if x.strip()], or the ValueError of float() *)
parse_proporcoes(fields, idx) ==
    IF idx > Len(fields) THEN Return(<<>>)
    ELSE IF fields[idx].kind = "blank" THEN parse_proporcoes(fields, idx + 1)
    ELSE IF fields[idx].kind = "text"
    THEN Raise("ValueError", "could not convert string to float")
    ELSE LET rest == parse_proporcoes(fields, idx + 1)
         IN  IF rest.kind = "raise" THEN rest
             ELSE Return(<<fields[idx].value>> \o rest.value)

lambdas_from(lambda_total, proporcoes, soma_proporcoes) ==
    IF proporcoes = <<>>
    THEN Raise("ValueError", "Nenhuma proporcao de chegada valida fornecida.")
    ELSE IF soma_proporcoes <= 0
    THEN Raise("ValueError", "A soma das proporcoes de chegada deve ser maior que zero.")
    ELSE Return([i \in 1 .. Len(proporcoes) |->
                    RMul(Norm(proporcoes[i], soma_proporcoes), Rat(lambda_total))])

calcular_lambda_i(lambda_total, parsed) ==
    IF parsed.kind = "raise" THEN parsed
    ELSE lambdas_from(lambda_total, parsed.value, SumInts(parsed.value, Len(parsed.value)))

(* 1 / Wq of the M/M/s queue, or the ZeroDivisionError of dividing by r ** s *)
calcular_wq_geral_inverso(lam_total, mi, s) ==
    IF lam_total = 0 THEN Raise("ZeroDivisionError", "float division by zero")
    ELSE Return(RAdd(RMul(RDiv(Rat(factorial(s) * (s * mi - lam_total)),
                               RPow(Norm(lam_total, mi), s)),
                          RSum([j \in 0 .. s - 1 |-> RDiv(RPow(Norm(lam_total, mi), j),
                                                          Rat(factorial(j)))], 0, s)),
                     Rat(s * mi)))

(* the mapping of one class *)
sem_interrupcao_class(lambda_i, mi, rho, Wq) ==
    [lambda_i |-> lambda_i, L |-> RMul(lambda_i, RAdd(Wq, Norm(1, mi))),
     Lq |-> RMul(lambda_i, Wq), W |-> RAdd(Wq, Norm(1, mi)), Wq |-> Wq, rho |-> rho]

RECURSIVE sem_interrupcao_round(_, _, _, _, _, _, _, _, _, _)
RECURSIVE sem_interrupcao_loop(_, _, _, _, _, _, _, _)
(* the loop over the classes from class i on *)
sem_interrupcao_loop(lambdas_i, mi, capacidade, rho, wq_base_inverso, i, acumulada, resultados) ==
    IF i > Len(lambdas_i) THEN arredondar(resultados)
    ELSE sem_interrupcao_round(lambdas_i, mi, capacidade, rho, wq_base_inverso, i,
                               RAdd(acumulada, lambdas_i[i]), resultados,
                               RSub(One, RDiv(acumulada, Rat(capacidade))),
                               RSub(One, RDiv(RAdd(acumulada, lambdas_i[i]), Rat(capacidade))))

(* the body of the loop for class i, the two priority factors computed *)
sem_interrupcao_round(lambdas_i, mi, capacidade, rho, wq_base_inverso, i, lambda_acumulada_i, resultados, fator_prioridade_1, fator_prioridade_2) ==
    IF RLe(fator_prioridade_1, Zero) \/ RLe(fator_prioridade_2, Zero)
    THEN Erro("Fator de prioridade negativo/zero na Classe")
    ELSE sem_interrupcao_loop(lambdas_i, mi, capacidade, rho, wq_base_inverso, i + 1,
            lambda_acumulada_i,
            Append(resultados,
                   sem_interrupcao_class(lambdas_i[i], mi, rho,
                       RDiv(One, RMul(RMul(wq_base_inverso, fator_prioridade_1),
                                      fator_prioridade_2)))))

(* from the base term on *)
sem_interrupcao_base(lambdas_i, mi, s, rho, wq_base_inverso) ==
    IF wq_base_inverso.kind = "return"
    THEN sem_interrupcao_loop(lambdas_i, mi, s * mi, rho, wq_base_inverso.value, 1,
                              Zero, <<>>)
    ELSE Erro("Divisao por zero no calculo do termo base (r^s e zero ou muito pequeno).")

(* from the stability check on *)
sem_interrupcao_stable(lambda_total, mi, s, lambdas_i) ==
    IF lambda_total >= s * mi
    THEN Erro("Sistema instavel. Taxa de ocupacao deve ser menor que 1")
    ELSE sem_interrupcao_base(lambdas_i, mi, s, Norm(lambda_total, s * mi),
                              calcular_wq_geral_inverso(lambda_total, mi, s))

calcular_sem_interrupcao_checked(lambda_total, mi, s, lambdas_i) ==
    IF lambdas_i.kind = "raise" THEN Erro("Erro de entrada: " \o lambdas_i.msg)
    ELSE IF mi <= 0 \/ s <= 0 \/ lambda_total < 0
    THEN Erro("Erro de entrada: Taxa de servico e servidores (s) devem ser positivos.")
    ELSE sem_interrupcao_stable(lambda_total, mi, s, lambdas_i.value)

calcular_mms_prioridade_sem_interrupcao(lambda_total, mi, servidores, proporcoes_str) ==
    calcular_sem_interrupcao_checked(lambda_total, mi, servidores,
        calcular_lambda_i(lambda_total, parse_proporcoes(proporcoes_str, 1)))

(***************************************************************************)
(* forms.prioridadesInterrupcao: the form's own computation of the         *)
(* preemptive priority model.                                              *)
(***************************************************************************)
(* Pw = numerator / (sum_terms + numerator) *)
form_erlang_c_ratio(prob_espera_num, sum_terms) ==
    IF RAdd(sum_terms, prob_espera_num) = Zero
    THEN Raise("ZeroDivisionError", "float division by zero")
    ELSE Return(RDiv(prob_espera_num, RAdd(sum_terms, prob_espera_num)))

(* _erlang_c(lam, mi, s), a == lam / mi *)
form_erlang_c_of(lam, mi, s, a) ==
    IF RLe(RSub(Rat(s * mi), lam), Zero)
    THEN Raise("ValueError", "Instabilidade local no calculo de Erlang C")
    ELSE form_erlang_c_ratio(
            RMul(RDiv(RPow(a, s), Rat(factorial(s))),
                 RDiv(Rat(s * mi), RSub(Rat(s * mi), lam))),
            RSum([k \in 0 .. s - 1 |-> RDiv(RPow(a, k), Rat(factorial(k)))], 0, s))

form_erlang_c(lam, mi, s) ==
    IF mi = 0 THEN Raise("ZeroDivisionError", "division by zero")
    ELSE form_erlang_c_of(lam, mi, s, RDiv(lam, Rat(mi)))

(* the mapping of a class with lam_i == 0 *)
com_interrupcao_idle(lam_i, rho) ==
    [lambda_i |-> lam_i, L |-> Zero, Lq |-> Zero, W |-> Zero, Wq |-> Zero, rho |-> rho]

(* the mapping of a class from its W: L = acumulada * W, Lq = L - lam_i / mi *)
com_interrupcao_metrics(lam_i, mi, rho, lambda_acumulada_i, W) ==
    [lambda_i |-> lam_i, L |-> RMul(lambda_acumulada_i, W),
     Lq |-> RSub(RMul(lambda_acumulada_i, W), RDiv(lam_i, Rat(mi))),
     W |-> W, Wq |-> RSub(W, Norm(1, mi)), rho |-> rho]

(* the key of the weighted time added to the mapping of a class when s > 1 *)
WithWBar(metrics, W_bar) ==
    [f \in DOMAIN metrics \cup {"W_bar"} |-> IF f = "W_bar" THEN W_bar ELSE metrics[f]]

RECURSIVE soma_previas(_, _, _)
(* sum(lambdas_[j] * Ws_acumulado[j] for j in range(i)), upto == i *)
soma_previas(lambdas_, Ws_acumulado, upto) ==
    IF upto = 0 THEN Zero
    ELSE RAdd(soma_previas(lambdas_, Ws_acumulado, upto - 1),
              RMul(lambdas_[upto], Ws_acumulado[upto]))

(* the lists after a pass of the loop that ends neither in a return nor in  *)
(* an exception                                                            *)
com_interrupcao_next(Ws_acumulado, resultados) ==
    [kind |-> "next", Ws_acumulado |-> Ws_acumulado, resultados |-> resultados]

(* the case s == 1 *)
com_interrupcao_single(lambdas_, mi, rho, i, Ws_acumulado, resultados, lambda_acumulada_i, denom) ==
    IF RLe(denom, Zero) THEN Erro("Denominador invalido na classe")
    ELSE com_interrupcao_next(Ws_acumulado,
            Append(resultados,
                   com_interrupcao_metrics(lambdas_[i], mi, rho, lambda_acumulada_i,
                                           RDiv(Norm(1, mi), denom))))

(* Ws_acumulado.append(W) and the mapping of class i *)
com_interrupcao_store(lambdas_, mi, s, rho, i, Ws_acumulado, resultados, lambda_acumulada_i, W_bar, W) ==
    com_interrupcao_next(Append(Ws_acumulado, W),
        Append(resultados,
               WithWBar(com_interrupcao_metrics(lambdas_[i], mi, rho, lambda_acumulada_i, W),
                        W_bar)))

(* W of class i from the weighted time W_bar *)
com_interrupcao_weighted(lambdas_, mi, s, rho, i, Ws_acumulado, resultados, lambda_acumulada_i, W_bar) ==
    IF i = 1
    THEN com_interrupcao_store(lambdas_, mi, s, rho, i, Ws_acumulado, resultados,
                               lambda_acumulada_i, W_bar, W_bar)
    ELSE IF Len(Ws_acumulado) < i - 1
    THEN Raise("IndexError", "list index out of range")
    ELSE com_interrupcao_store(lambdas_, mi, s, rho, i, Ws_acumulado, resultados,
            lambda_acumulada_i, W_bar,
            RDiv(RSub(RMul(lambda_acumulada_i, W_bar),
                      soma_previas(lambdas_, Ws_acumulado, i - 1)),
                 lambdas_[i]))

(* the case s > 1, Pw computed or raised *)
com_interrupcao_multi(lambdas_, mi, s, rho, i, Ws_acumulado, resultados, lambda_acumulada_i, Pw_bar) ==
    IF Pw_bar.kind = "raise"
    THEN (IF Pw_bar.exc = "ValueError"
          THEN Erro("Instabilidade local na Classe")
          ELSE Pw_bar)
    ELSE com_interrupcao_weighted(lambdas_, mi, s, rho, i, Ws_acumulado, resultados,
            lambda_acumulada_i,
            RAdd(RDiv(Pw_bar.value, RSub(Rat(mi * s), lambda_acumulada_i)), Norm(1, mi)))

(* one pass of the loop, for class i (i counts from 1): the lists after it, *)
(* or the mapping returned, or the exception raised                        *)
com_interrupcao_round(lambdas_, mi, s, rho, i, Ws_acumulado, resultados) ==
    IF lambdas_[i] = Zero
    THEN com_interrupcao_next(Ws_acumulado,
                              Append(resultados, com_interrupcao_idle(lambdas_[i], rho)))
    ELSE IF s = 1
    THEN com_interrupcao_single(lambdas_, mi, rho, i, Ws_acumulado, resultados,
            SumRats(lambdas_, i),
            RMul(RSub(One, RDiv(SumRats(lambdas_, i - 1), Rat(mi))),
                 RSub(One, RDiv(SumRats(lambdas_, i), Rat(mi)))))
    ELSE com_interrupcao_multi(lambdas_, mi, s, rho, i, Ws_acumulado, resultados,
            SumRats(lambdas_, i), form_erlang_c(SumRats(lambdas_, i), mi, s))

RECURSIVE com_interrupcao_loop(_, _, _, _, _, _, _)
(* the passes after the pass round of class i *)
com_interrupcao_continue(lambdas_, mi, s, rho, i, round) ==
    IF round.kind = "next"
    THEN com_interrupcao_loop(lambdas_, mi, s, rho, i + 1,
                              round.Ws_acumulado, round.resultados)
    ELSE round

(* the loop over the classes from class i on *)
com_interrupcao_loop(lambdas_, mi, s, rho, i, Ws_acumulado, resultados) ==
    IF i > Len(lambdas_) THEN arredondar(resultados)
    ELSE com_interrupcao_continue(lambdas_, mi, s, rho, i,
            com_interrupcao_round(lambdas_, mi, s, rho, i, Ws_acumulado, resultados))

(* the local variables of a call that has reached its loop, i being the    *)
(* class the next pass works on (i counts from 1)                          *)
com_interrupcao_locals(lambdas_, mi, s, rho) ==
    [kind |-> "loop", lambdas_ |-> lambdas_, mi |-> mi, s |-> s, rho |-> rho,
     i |-> 1, Ws_acumulado |-> <<>>, resultados |-> <<>>]

(* from capacidade = mi * s on; lambda_total / capacidade is computed       *)
(* before mi and s are checked                                             *)
com_interrupcao_checked(lambda_total, mi, s, lambdas_) ==
    IF mi * s = 0 THEN Raise("ZeroDivisionError", "division by zero")
    ELSE IF mi <= 0 \/ s <= 0 \/ RGe(Norm(lambda_total, mi * s), One)
    THEN Erro("Parametros invalidos (mu, s) ou sistema instavel (lambda > s.mu).")
    ELSE com_interrupcao_locals(lambdas_, mi, s, Norm(lambda_total, mi * s))

(* from the parsed proportions on *)
com_interrupcao_parsed(lambda_total, mi, s, parsed) ==
    IF parsed.kind = "raise"
    THEN Erro("As proporcoes de chegada devem ser numeros validos separados por virgula.")
    ELSE IF parsed.value = <<>>
    THEN Erro("Nenhuma proporcao de chegada valida fornecida.")
    ELSE IF SumInts(parsed.value, Len(parsed.value)) <= 0
    THEN Erro("A soma das proporcoes de chegada deve ser maior que zero.")
    ELSE com_interrupcao_checked(lambda_total, mi, s,
            lambdas_from(lambda_total, parsed.value,
                         SumInts(parsed.value, Len(parsed.value))).value)

(* the call up to its loop: the mapping or the exception that ends it       *)
(* before the loop, or the local variables the loop starts with            *)
com_interrupcao_entered(lambda_total, mi, servidores, proporcoes_str) ==
    com_interrupcao_parsed(lambda_total, mi, servidores, parse_proporcoes(proporcoes_str, 1))

(* the loop and the return after it *)
com_interrupcao_run(entered) ==
    IF entered.kind = "loop"
    THEN com_interrupcao_loop(entered.lambdas_, entered.mi, entered.s, entered.rho,
                              1, <<>>, <<>>)
    ELSE entered

(* the local variables after a pass that ended in neither return nor raise *)
com_interrupcao_passed(locals, round) ==
    [locals EXCEPT !.i = @ + 1,
                   !.Ws_acumulado = round.Ws_acumulado,
                   !.resultados = round.resultados]

calcular_mms_prioridade_com_interrupcao(lambda_total, mi, servidores, proporcoes_str) ==
    com_interrupcao_run(
        com_interrupcao_entered(lambda_total, mi, servidores, proporcoes_str))

(***************************************************************************)
(* forms.mg1.Mg1.mg1_prioridades_nao_preemptivo                            *)
(***************************************************************************)
(* float('inf') *)
Infinity == <<1, 0>>

(* margin < 1e-9 *)
BelowMargin(margin) == RLt(margin, Zero) \/ Within(margin, 9)

(* the tuple of a class whose waiting time is wq_k *)
Mg1_priority_tuple(self, lam_k, rho_k, wq_k) ==
    [Lq |-> RMul(lam_k, wq_k), L |-> RMul(lam_k, RAdd(wq_k, RDiv(One, self.mi))),
     Wq |-> wq_k, W |-> RAdd(wq_k, RDiv(One, self.mi)), rho |-> rho_k]

(* the tuple of a class: infinite once R_k is within 1e-9 of 1 *)
Mg1_priority_class(self, a, lam_k, rho_k, denominador, margin) ==
    IF BelowMargin(margin)
    THEN Return([Lq |-> Infinity, L |-> Infinity, Wq |-> Infinity, W |-> Infinity,
                 rho |-> rho_k])
    ELSE IF denominador = Zero
    THEN Raise("ZeroDivisionError", "float division by zero")
    ELSE Return(Mg1_priority_tuple(self, lam_k, rho_k, RDiv(a, denominador)))

RECURSIVE Mg1_priority_loop(_, _, _, _, _)
RECURSIVE Mg1_priority_round(_, _, _, _, _, _)
(* the loop over the classes from class i on (i counts from 1) *)
Mg1_priority_loop(self, a, i, r_sum_anterior, resultados) ==
    IF i > Len(self.lam_list) THEN [kind |-> "return", classes |-> resultados]
    ELSE Mg1_priority_round(self, a, i, RAdd(r_sum_anterior, self.rho_list[i]), resultados,
            Mg1_priority_class(self, a, self.lam_list[i], self.rho_list[i],
                RMul(Rat(2), RMul(RSub(One, r_sum_anterior),
                                  RSub(One, RAdd(r_sum_anterior, self.rho_list[i])))),
                RSub(One, RAdd(r_sum_anterior, self.rho_list[i]))))

(* resultados.append(...) and the next class *)
Mg1_priority_round(self, a, i, r_sum_atual, resultados, class) ==
    IF class.kind = "raise" THEN class
    ELSE Mg1_priority_loop(self, a, i + 1, r_sum_atual, Append(resultados, class.value))

Mg1_mg1_prioridades_nao_preemptivo(self) ==
    IF ~self.has_list
    THEN Raise("ValueError", "lam_list deve ser fornecido para calcular prioridades.")
    ELSE Mg1_priority_loop(self, RMul(self.lam, self.e_s2), 1, Zero, <<>>)

(* Mg1(lam, mi, var, lam_list).mg1_prioridades_nao_preemptivo() *)
Mg1_construct_prioridades(self) ==
    IF self.kind = "raise" THEN self ELSE Mg1_mg1_prioridades_nao_preemptivo(self)

(***************************************************************************)
(* The class Mmsn of forms.mmsn and of formulas: an object with the        *)
(* attributes lam_por_cliente, mi, s, n_pop, r and p_list.  A method       *)
(* returns the object as the call leaves it and what the call produced.    *)
(***************************************************************************)
NoObject == [kind |-> "none"]

Mmsn_init(lam_por_cliente, mi, s, n_pop) ==
    IF n_pop < s THEN Raise("ValueError", "N deve ser maior ou igual a s.")
    ELSE IF mi = 0 THEN Raise("ValueError", "mi (taxa de atendimento) nao pode ser zero.")
    ELSE [kind |-> "Mmsn", lam_por_cliente |-> lam_por_cliente, mi |-> mi, s |-> s,
          n_pop |-> n_pop, r |-> Norm(lam_por_cliente, mi), p_list |-> <<>>]

(* math.pow(base, k) for integers base and k >= 0 *)
math_pow(base, k) == IF k = 0 THEN 1 ELSE base^k

(* the coefficient of p0 in Pn: comb * r^n below s servers,                *)
(* (fator_comb / fator_pot) * r^n from s on                                *)
Mmsn_term(self, n) ==
    IF n < self.s
    THEN RMul(Norm(factorial(self.n_pop), factorial(self.n_pop - n) * factorial(n)),
              RPow(self.r, n))
    ELSE RMul(RDiv(Norm(factorial(self.n_pop),
                        factorial(self.n_pop - n) * factorial(self.s)),
                   Rat(math_pow(self.s, n - self.s))),
              RPow(self.r, n))

(* soma_p0_1 + soma_p0_2 *)
Mmsn_soma(self) == RSum([n \in 0 .. self.n_pop |-> Mmsn_term(self, n)], 0, self.n_pop + 1)

(* mutant of Mmsn_p_list_reset: the list of the earlier call is kept *)
Mmsn_p_list_kept(self, p0) == Append(self.p_list, p0)

(* self.p_list = [p0] *)
Mmsn_p_list_reset(self, p0) == <<p0>>

(* self.p_list once the two loops have appended Pn for 1 <= n < s and for  *)
(* s <= n <= N                                                             *)
Mmsn_p_list(self, p0) ==
    Mmsn_p_list_reset(self, p0)
    \o [n \in 1 .. self.s - 1 |-> RMul(Mmsn_term(self, n), p0)]
    \o [k \in 1 .. self.n_pop - self.s + 1 |-> RMul(Mmsn_term(self, self.s + k - 1), p0)]

(* l: the sum of n * pn over the appended values *)
Mmsn_l(self, p0) ==
    RSum([n \in 0 .. self.n_pop |-> RMul(Rat(n), RMul(Mmsn_term(self, n), p0))],
         0, self.n_pop + 1)

(* the mapping forms.mmsn.Mmsn.mmsn returns: every value rounded, the list *)
(* of Pn rounded value by value                                            *)
Mmsn_resultados(self, p0, p_list, l, lam_efetiva, w) ==
    [kind |-> "return",
     p0 |-> round6(p0), lambda_eff |-> round6(lam_efetiva), L |-> round6(l),
     Lq |-> round6(RSub(l, RDiv(lam_efetiva, Rat(self.mi)))),
     W |-> round6(w),
     Wq |-> round6(IF lam_efetiva # Zero
                   THEN RDiv(RSub(l, RDiv(lam_efetiva, Rat(self.mi))), lam_efetiva)
                   ELSE Zero),
     Ls |-> round6(RDiv(lam_efetiva, Rat(self.mi))),
     rho |-> round6(IF self.s * self.mi # 0
                    THEN RDiv(lam_efetiva, Rat(self.s * self.mi)) ELSE Zero),
     idle |-> round6(RSub(One, IF self.s * self.mi # 0
                               THEN RDiv(lam_efetiva, Rat(self.s * self.mi)) ELSE Zero)),
     L_parado |-> round6(RSub(Rat(self.n_pop), l)),
     W_parado |-> round6(IF lam_efetiva = Zero THEN Zero
                         ELSE RSub(RDiv(Rat(self.n_pop), lam_efetiva), w)),
     Pn |-> [i \in 1 .. Len(p_list) |-> round6(p_list[i])]]

(* the tuple formulas.Mmsn.mmsn returns *)
Mmsn_tuple(self, p0, p_list, l, lam_efetiva, w) ==
    [kind |-> "return", p0 |-> p0, L |-> l,
     Lq |-> RSub(l, RDiv(lam_efetiva, Rat(self.mi))), W |-> w,
     Wq |-> IF lam_efetiva # Zero
            THEN RDiv(RSub(l, RDiv(lam_efetiva, Rat(self.mi))), lam_efetiva)
            ELSE Zero,
     lambda_eff |-> lam_efetiva]

(* the object with its new p_list, and the value returned *)
Mmsn_returns(self, p_list, result) ==
    [self |-> [self EXCEPT !.p_list = p_list], result |-> result]

Mmsn_little(self, dict, p0, p_list, l, lam_efetiva, w) ==
    Mmsn_returns(self, p_list,
                 IF dict THEN Mmsn_resultados(self, p0, p_list, l, lam_efetiva, w)
                 ELSE Mmsn_tuple(self, p0, p_list, l, lam_efetiva, w))

Mmsn_effective(self, dict, p0, p_list, l, lam_efetiva) ==
    Mmsn_little(self, dict, p0, p_list, l, lam_efetiva,
                IF lam_efetiva # Zero THEN RDiv(l, lam_efetiva) ELSE Zero)

Mmsn_metrics(self, dict, p0, p_list, l) ==
    Mmsn_effective(self, dict, p0, p_list, l,
                   RMul(Rat(self.lam_por_cliente), RSub(Rat(self.n_pop), l)))

Mmsn_states(self, dict, p0) ==
    Mmsn_metrics(self, dict, p0, Mmsn_p_list(self, p0), Mmsn_l(self, p0))

(* p0 = 1 / (soma_p0_1 + soma_p0_2) and what follows *)
Mmsn_from_soma(self, dict, soma) ==
    IF soma = Zero
    THEN [self |-> self, result |-> Raise("ZeroDivisionError", "float division by zero")]
    ELSE Mmsn_states(self, dict, RDiv(One, soma))

(* Mmsn.mmsn(self); dict: the method of forms.mmsn, which returns a        *)
(* mapping, and not that of formulas, which returns a tuple.  Without a    *)
(* server, fator_pot is 0.0 from n = 1 on and the division by it raises.   *)
Mmsn_mmsn(self, dict) ==
    IF self.s = 0 /\ self.n_pop >= 1
    THEN [self |-> self, result |-> Raise("ZeroDivisionError", "float division by zero")]
    ELSE Mmsn_from_soma(self, dict, Mmsn_soma(self))

(***************************************************************************)
(* modelos.priority_extended: the priority models behind the limits of the *)
(* exercise list.                                                          *)
(***************************************************************************)
MIN_PRIORITY_CLASSES == 1

MAX_SERVERS == 3

(* _enforce_minimums(arrival_rates, s): the clean rates, or the error of   *)
(* the first limit the input breaks; s is an int in every call modelled    *)
enforce_minimums(arrival_rates, s) ==
    LET rates == coerce_arrival_rates(arrival_rates)
    IN  IF rates.kind = "raise" THEN rates
        ELSE IF Len(rates.value) < MIN_PRIORITY_CLASSES
             THEN Raise("ValueError", "Informe pelo menos 1 classe de prioridade.")
        ELSE IF s < 1
             THEN Raise("ValueError", "Numero de servidores (s) deve ser um inteiro >= 1.")
        ELSE IF s > MAX_SERVERS
             THEN Raise("ValueError", "Numero de servidores (s) deve ser <= 3.")
        ELSE rates

(* the parameter s of both functions: MAX_SERVERS when the call omits it *)
servers_or_default(has_s, s) == IF has_s THEN s ELSE MAX_SERVERS

with_preemption_checked(rates, mu, s) ==
    IF rates.kind = "raise" THEN rates
    ELSE mms_priority_preemptive(rates.value, mu, s)

priority_with_preemption(arrival_rates, mu, has_s, s) ==
    with_preemption_checked(
        enforce_minimums(arrival_rates, servers_or_default(has_s, s)),
        mu, servers_or_default(has_s, s))

without_preemption_checked(rates, mu, s) ==
    IF rates.kind = "raise" THEN rates
    ELSE mms_priority_non_preemptive(rates.value, mu, s)

priority_without_preemption(arrival_rates, mu, has_s, s) ==
    without_preemption_checked(
        enforce_minimums(arrival_rates, servers_or_default(has_s, s)),
        mu, servers_or_default(has_s, s))

(***************************************************************************)
(* The waiting-time tails.  math.exp of a number that is not 0 is not a    *)
(* rational: a product coef * exp(x) is kept as the pair of coef and x,    *)
(* with exp(0) = 1.0 and 0.0 * exp(x) = 0.0 computed.                      *)
(***************************************************************************)
Scaled(coef, x) ==
    IF coef = Zero \/ x = Zero THEN [coef |-> coef, exp |-> Zero]
    ELSE [coef |-> coef, exp |-> x]

(* the mapping of mms with the keys "P(Wq>t)" and "P(W>t)" added *)
WithTails(result, PWq_gt_t, PW_gt_t) ==
    [f \in DOMAIN result \cup {"PWq_gt_t", "PW_gt_t"} |->
        IF f = "PWq_gt_t" THEN PWq_gt_t
        ELSE IF f = "PW_gt_t" THEN PW_gt_t
        ELSE result[f]]

(* P(W>t) = exp(-mu * t) * (1 + inner), inner = C * (mu * t) when           *)
(* abs(denom) < 1e-8 and C * (1 - exp(-mu * t * denom)) / denom otherwise: *)
(* kept as C, denom and mu * t                                             *)
mms_PW_gt_t(C, mu, t, denom) == [C |-> C, denom |-> denom, mu_t |-> Rat(mu * t)]

(* the block "if t is not None" of mms past its check of t, given           *)
(* C = (a**s / (factorial(s) * (1 - rho))) * p0                            *)
mms_tails(result, mu, s, t, a, C) ==
    WithTails(result,
              Scaled(C, RNeg(RMul(RMul(RSub(One, result.rho), Rat(s * mu)), Rat(t)))),
              mms_PW_gt_t(C, mu, t, RSub(Rat(s - 1), a)))

(* mms(lmbda, mu, s, t=t) from the mapping of the metrics on *)
mms_timed_from(result, lmbda, mu, s, t) ==
    IF result.kind = "raise" THEN result
    ELSE IF lmbda = 0 THEN WithTails(result, Scaled(Zero, Zero), Scaled(Zero, Zero))
    ELSE IF t < 0 THEN Raise("ValueError", "t deve ser >= 0")
    ELSE mms_tails(result, mu, s, t, Norm(lmbda, mu),
                   RMul(RDiv(RPow(Norm(lmbda, mu), s),
                             RMul(Rat(factorial(s)), RSub(One, result.rho))),
                        result.p0))

mms_timed(lmbda, mu, s, t) == mms_timed_from(mms(lmbda, mu, s), lmbda, mu, s, t)

(***************************************************************************)
(* Class Mm of forms.mm and of formulas: the constructor, mms and          *)
(* prob_wq_maior_que_t.                                                    *)
(***************************************************************************)
Mm_init(lam, mi, s) ==
    IF mi <= 0
    THEN Raise("ValueError", "A taxa de atendimento deve ser um valor positivo e nao-nulo.")
    ELSE IF s <= 0
    THEN Raise("ValueError", "O numero de servidores (s) deve ser um inteiro positivo.")
    ELSE IF RGe(Norm(lam, mi * s), One)
    THEN Raise("ValueError", "O sistema esta instavel")
    ELSE [kind |-> "Mm", lam |-> lam, mi |-> mi, s |-> s, rho |-> Norm(lam, mi * s)]

(* Mm.mms from lq on *)
Mm_mms_metrics(self, r, p0, lq) ==
    IF self.lam = 0 THEN Raise("ZeroDivisionError", "float division by zero")
    ELSE [kind |-> "return", p0 |-> p0, l |-> RAdd(lq, r), lq |-> lq,
          w |-> RAdd(RDiv(lq, Rat(self.lam)), Norm(1, self.mi)),
          wq |-> RDiv(lq, Rat(self.lam))]

(* Mm.mms from p0 = 1 / (soma_p0 + termo_s) on *)
Mm_mms_from(self, r, total) ==
    IF total = Zero THEN Raise("ZeroDivisionError", "float division by zero")
    ELSE Mm_mms_metrics(self, r, RDiv(One, total),
            RDiv(RMul(RMul(RDiv(One, total), RPow(r, self.s)), self.rho),
                 RMul(Rat(factorial(self.s)), RPow(RSub(One, self.rho), 2))))

Mm_mms(self) ==
    Mm_mms_from(self, Norm(self.lam, self.mi),
        RAdd(RSum([n \in 0 .. self.s - 1 |->
                      RDiv(RPow(Norm(self.lam, self.mi), n), Rat(factorial(n)))],
                  0, self.s),
             RMul(RDiv(RPow(Norm(self.lam, self.mi), self.s), Rat(factorial(self.s))),
                  RDiv(One, RSub(One, self.rho)))))

(* the branch s # 1 of prob_wq_maior_que_t, given self.mms() *)
Mm_prob_wq_multi(self, t, metrics) ==
    IF metrics.kind = "raise" THEN metrics
    ELSE Return(Scaled(RDiv(metrics.lq, Norm(self.lam, self.mi)),
                       RMul(RNeg(RMul(Rat(self.mi * self.s), RSub(One, self.rho))),
                            Rat(t))))

Mm_prob_wq_maior_que_t(self, t) ==
    IF RGe(self.rho, One) THEN Return(Scaled(One, Zero))
    ELSE IF self.s = 1
    THEN Return(Scaled(Norm(self.lam, self.mi), RMul(RNeg(Rat(self.mi - self.lam)), Rat(t))))
    ELSE Mm_prob_wq_multi(self, t, Mm_mms(self))

(***************************************************************************)
(* mm1(lmbda, mu, n=n) and mms(lmbda, mu, s, n=n): the state probability   *)
(***************************************************************************)
(* result["pn"] = pn *)
SetPn(result, pn) ==
    [f \in DOMAIN result \cup {"pn"} |-> IF f = "pn" THEN pn ELSE result[f]]

(* pn(n_val) of mm1: p0 * (rho**n_val) *)
mm1_pn(p0, rho, n_val) ==
    IF n_val < 0 THEN Raise("ValueError", "n deve ser inteiro >= 0")
    ELSE Return(RMul(p0, RPow(rho, n_val)))

(* mm1 from the mapping of the metrics on *)
mm1_n_from(result, n, pn) ==
    IF result.kind = "raise" THEN result
    ELSE IF pn.kind = "raise" THEN pn
    ELSE SetPn(result, pn.value)

mm1_n_of(result, n) == mm1_n_from(result, n, mm1_pn(result.p0, result.rho, n))

mm1_n(lmbda, mu, n) == mm1_n_of(mm1(lmbda, mu), n)

(* mutant of mms_pn: the term a**n / n! for every n *)
mms_pn_untruncated(a, p0, s, n_val) ==
    IF n_val < 0 THEN Raise("ValueError", "n deve ser inteiro >= 0")
    ELSE Return(RMul(RDiv(RPow(a, n_val), Rat(factorial(n_val))), p0))

(* pn_func(n_val) of mms *)
mms_pn(a, p0, s, n_val) ==
    IF n_val < 0 THEN Raise("ValueError", "n deve ser inteiro >= 0")
    ELSE IF n_val <= s
         THEN Return(RMul(RDiv(RPow(a, n_val), Rat(factorial(n_val))), p0))
    ELSE Return(RMul(RDiv(RPow(a, n_val), Rat(factorial(s) * s^(n_val - s))), p0))

(* mms from the mapping of the metrics on; with lmbda == 0 the early       *)
(* return sets pn to 1.0 for n == 0 and to 0.0 for any other n             *)
mms_n_from(result, lmbda, n, pn) ==
    IF result.kind = "raise" THEN result
    ELSE IF lmbda = 0 THEN SetPn(result, IF n = 0 THEN One ELSE Zero)
    ELSE IF pn.kind = "raise" THEN pn
    ELSE SetPn(result, pn.value)

mms_n_of(result, lmbda, mu, s, n) ==
    mms_n_from(result, lmbda, n, mms_pn(Norm(lmbda, mu), result.p0, s, n))

mms_n(lmbda, mu, s, n) == mms_n_of(mms(lmbda, mu, s), lmbda, mu, s, n)

(***************************************************************************)
(* app.FilaApp.capture_output(func, text_widget)                           *)
(* Outside a call the object is the interpreter: stdout is what sys.stdout *)
(* is bound to and original what it was bound to when the program started. *)
(* Inside a call the object also holds the local old_stdout, the block the *)
(* call is at and the exception that is propagating, if one is.            *)
(***************************************************************************)
Interpreter(stdout, original) ==
    [kind |-> "interpreter", stdout |-> stdout, original |-> original]

(* old_stdout = sys.stdout; sys.stdout = TextRedirector(text_widget) *)
capture_output_entered(interpreter) ==
    [kind |-> "capture", at |-> "try", stdout |-> "TextRedirector",
     old_stdout |-> interpreter.stdout, original |-> interpreter.original,
     pending |-> ""]

(* try: the calls on the widget and the call of func.  outcome is how the *)
(* block ends: "return", "Exception" (caught by the except clause) or an   *)
(* exception that is no Exception; rebound is what func has bound          *)
(* sys.stdout to, "" if it has not.                                        *)
capture_output_tried(frame, outcome, rebound) ==
    [frame EXCEPT !.stdout = IF rebound = "" THEN @ ELSE rebound,
                  !.at = IF outcome = "Exception" THEN "except" ELSE "finally",
                  !.pending = IF outcome \in {"return", "Exception"} THEN "" ELSE outcome]

(* except Exception as e: the calls on the widget and messagebox.showerror, *)
(* which return or raise                                                    *)
capture_output_handled(frame, raised) ==
    [frame EXCEPT !.at = "finally", !.pending = IF raised THEN "TclError" ELSE ""]

(* mutant of capture_output_finally: sys.stdout is left as it is *)
capture_output_not_restored(frame) == Interpreter(frame.stdout, frame.original)

(* finally: sys.stdout = old_stdout *)
capture_output_finally(frame) == Interpreter(frame.old_stdout, frame.original)

(* the call returns None or lets the pending exception through *)
capture_output_outcome(frame) ==
    IF frame.pending = "" THEN Return("None") ELSE Raise(frame.pending, "")

(***************************************************************************)
(* Requests and the state machine.                                         *)
(***************************************************************************)
Rates == -1 .. MaxRate

ServiceRates == 0 .. MaxRate

ServerCounts == 0 .. MaxServers

Mg1Rates == 0 .. MaxMg1Rate

ClassRates == -1 .. MaxClassRate

RateLists == UNION {[1 .. m -> ClassRates] : m \in 0 .. MaxClasses}

(* <<mu, s>> of the priority requests: every server count with every       *)
(* service rate up to a total capacity s * mu of MaxCapacity                *)
PriorityServers ==
    {c \in (0 .. MaxCapacity) \X ServerCounts : c[1] * c[2] <= MaxCapacity}

(* the worked priority example of the exercise list (Ex. 6b, 6c) *)
ExampleRates == <<2, 4, 2>>

ExampleMu == 10

DistTags == {"poisson", "exponential", "deterministic", "", " Exponential ", "erlang"}

Capacities == -1 .. MaxK

(* <<has_n, n>>: no query, or a query from -1 to one past the largest capacity *)
Queries == {<<FALSE, 0>>} \cup {<<TRUE, n>> : n \in -1 .. MaxK + 1}

(* the arguments lmbda, mu and N of the finite-population calls *)
PopRates == -1 .. MaxPopRate

Populations == -1 .. MaxPopulation

(* <<has_n, n>> for a population: no query, or one from -1 to one past the largest N *)
PopQueries == {<<FALSE, 0>>} \cup {<<TRUE, n>> : n \in -1 .. MaxPopulation + 1}

(* the fractions p / q with numerator and denominator up to MaxFraction *)
Fractions == {Norm(p, q) : p \in -1 .. MaxFraction, q \in 1 .. MaxFraction}

(* the M/G/1 example of the exercise list (Ex. 1): lam = 0.2, mi = 0.25,   *)
(* var = 16, 9, 4, 1, 0                                                    *)
ExampleLam == <<1, 5>>

ExampleMi == <<1, 4>>

ExampleVars == {<<16, 1>>, <<9, 1>>, <<4, 1>>, <<1, 1>>, <<0, 1>>}

(* a field of proporcoes_str between two commas: blank, not a number, or   *)
(* the text of a number                                                    *)
FormFields ==
    {[kind |-> "blank", value |-> 0], [kind |-> "text", value |-> 0]}
    \cup {[kind |-> "number", value |-> k] : k \in 0 .. MaxProportion}

FormLists == UNION {[1 .. len -> FormFields] : len \in 1 .. MaxFields}

(* the arguments lambda_total, mi and servidores of the two form functions *)
FormRates == -1 .. MaxFormRate

FormServers == -1 .. MaxFormServers

(* the argument lam_list of Mg1: no list, or up to two rates *)
LamLists == UNION {[1 .. len -> {f \in Fractions : RGe(f, Zero)}] : len \in 0 .. 2}

(* two classes whose total load is within 1e-9 of the service rate 1 *)
NearSaturation == <<<<1999999999, 2000000000>>, Zero>>

(* has_var: the call passes a keyword argument for the variance, var, that *)
(* the signature receives in **kwargs; lam, mi, var: the arguments of Mg1  *)
NoArgs ==
    [fn |-> "", lmbda |-> 0, mu |-> 0, s |-> 0, dist |-> "", rates |-> <<>>,
     K |-> 0, has_n |-> FALSE, n |-> 0,
     has_var |-> FALSE, lam |-> Zero, mi |-> Zero, var |-> Zero, fields |-> <<>>,
     lam_list |-> <<>>, has_s |-> TRUE, t |-> 0]

(* the calls of the model, one family per engine function *)
ReqMm1 ==
    \E l \in Rates, m \in ServiceRates :
        req = [NoArgs EXCEPT !.fn = "mm1", !.lmbda = l, !.mu = m]

ReqMms ==
    \E l \in Rates, m \in ServiceRates, s \in ServerCounts :
        req = [NoArgs EXCEPT !.fn = "mms", !.lmbda = l, !.mu = m, !.s = s]

ReqMg1 ==
    \E l \in Rates \cup Mg1Rates, m \in Mg1Rates, d \in DistTags :
        req = [NoArgs EXCEPT !.fn = "mg1", !.lmbda = l, !.mu = m, !.dist = d]

ReqErlangC ==
    \E l \in Rates, m \in ServiceRates, s \in ServerCounts :
        req = [NoArgs EXCEPT !.fn = "erlang_c", !.lmbda = l, !.mu = m, !.s = s]

(* _erlang_c of the preemptive form, called with the arguments of erlang_c *)
ReqFormErlangC ==
    \E l \in Rates, m \in ServiceRates, s \in ServerCounts :
        req = [NoArgs EXCEPT !.fn = "_erlang_c", !.lmbda = l, !.mu = m, !.s = s]

(* the argument t of the calls that ask for the waiting-time tails *)
Times == -1 .. MaxTime

(* mms(lmbda, mu, s, t=t) *)
ReqMmsTimed ==
    \E l \in Rates, m \in ServiceRates, s \in ServerCounts, t \in Times :
        req = [NoArgs EXCEPT !.fn = "mms:t", !.lmbda = l, !.mu = m, !.s = s, !.t = t]

(* Mm(lam, mi, s).prob_wq_maior_que_t(t), of forms.mm and of formulas *)
ReqMmClass ==
    \E f \in {"Mm.prob_wq_maior_que_t", "formulas.Mm.prob_wq_maior_que_t"},
       l \in Rates, m \in ServiceRates, s \in ServerCounts, t \in Times :
        req = [NoArgs EXCEPT !.fn = f, !.lmbda = l, !.mu = m, !.s = s, !.t = t]

(* server counts beyond ServerCounts: the first ones whose factorial is too *)
(* large for a float                                                       *)
ManyServers == 171 .. 172

(* mms(lmbda, mu, s) and erlang_c(lmbda, mu, s) with many servers *)
ReqManyServers ==
    \E f \in {"mms:s", "erlang_c:s"}, l \in Rates, m \in ServiceRates, s \in ManyServers :
        req = [NoArgs EXCEPT !.fn = f, !.lmbda = l, !.mu = m, !.s = s]

(* the argument n of mm1 and of mms: from -1 to one past MaxK *)
StateQueries == -1 .. MaxK + 1

(* mm1(lmbda, mu, n=n) *)
ReqMm1N ==
    \E l \in Rates, m \in ServiceRates, n \in StateQueries :
        req = [NoArgs EXCEPT !.fn = "mm1:n", !.lmbda = l, !.mu = m,
                             !.has_n = TRUE, !.n = n]

(* mms(lmbda, mu, s, n=n) *)
ReqMmsN ==
    \E l \in Rates, m \in ServiceRates, s \in ServerCounts, n \in StateQueries :
        req = [NoArgs EXCEPT !.fn = "mms:n", !.lmbda = l, !.mu = m, !.s = s,
                             !.has_n = TRUE, !.n = n]

(* FilaApp.capture_output(func, text_widget): func and the stream that    *)
(* sys.stdout is bound to are chosen when the call is made                 *)
ReqCaptureOutput == req = [NoArgs EXCEPT !.fn = "capture_output"]

(* what sys.stdout is bound to when the program starts *)
Streams == {"sys.__stdout__", "StringIO"}

(* what func may bind sys.stdout to; "" if it leaves it alone *)
Rebindings == {"", "os.devnull"}

(* how the try block ends *)
TryOutcomes == {"return", "Exception", "KeyboardInterrupt"}

ReqPriority ==
    \E f \in {"mms_priority_preemptive", "mms_priority_non_preemptive"} :
        \/ \E rs \in RateLists, c \in PriorityServers :
              req = [NoArgs EXCEPT !.fn = f, !.rates = rs, !.mu = c[1], !.s = c[2]]
        \/ \E s \in {1, 2} :
              req = [NoArgs EXCEPT !.fn = f, !.rates = ExampleRates,
                                   !.mu = ExampleMu, !.s = s]

(* <<mu, s>> of the extended priority calls: the servers of the priority   *)
(* requests and one server count above MAX_SERVERS                         *)
ExtendedServers ==
    {c \in (0 .. MaxCapacity) \X (0 .. MAX_SERVERS + 1) :
        c[2] > MAX_SERVERS \/ c \in PriorityServers}

(* service rates of the calls that omit s *)
DefaultServerRates == {m \in 0 .. MaxCapacity : m * MAX_SERVERS <= MaxCapacity}

ReqExtended ==
    \E f \in {"priority_with_preemption", "priority_without_preemption"} :
        \/ \E rs \in RateLists, c \in ExtendedServers :
              req = [NoArgs EXCEPT !.fn = f, !.rates = rs, !.mu = c[1], !.s = c[2]]
        \/ \E rs \in RateLists, m \in DefaultServerRates :
              req = [NoArgs EXCEPT !.fn = f, !.rates = rs, !.mu = m,
                                   !.has_s = FALSE]

(* the calls of the preemptive engine for s # 1 that are followed pass by  *)
(* pass through the loop over the classes                                  *)
ReqPreemptiveLoop ==
    \E rs \in RateLists, c \in PriorityServers :
        /\ c[2] # 1
        /\ req = [NoArgs EXCEPT !.fn = "mms_priority_preemptive:loop",
                                !.rates = rs, !.mu = c[1], !.s = c[2]]

(* the calls of the preemptive form function that are followed pass by     *)
(* pass through the loop over the classes                                  *)
ReqComInterrupcaoLoop ==
    \E l \in 0 .. MaxFormRate, m \in FormRates, s \in FormServers, ps \in FormLists :
        req = [NoArgs EXCEPT !.fn = "calcular_mms_prioridade_com_interrupcao:loop",
                             !.lmbda = l, !.mu = m, !.s = s, !.fields = ps]

ReqMm1k ==
    \E l \in Rates, m \in ServiceRates, K \in Capacities, q \in Queries :
        req = [NoArgs EXCEPT !.fn = "mm1k", !.lmbda = l, !.mu = m, !.K = K,
                             !.has_n = q[1], !.n = q[2]]

ReqMmsk ==
    \E l \in Rates, m \in ServiceRates, s \in ServerCounts,
       K \in Capacities, q \in Queries :
        req = [NoArgs EXCEPT !.fn = "mmsk", !.lmbda = l, !.mu = m, !.s = s, !.K = K,
                             !.has_n = q[1], !.n = q[2]]

(* mg1 called with a variance among its keyword arguments *)
ReqMg1Keyword ==
    \E l \in 0 .. MaxFraction, m \in 1 .. MaxFraction, d \in DistTags,
       v \in {f \in Fractions : RGe(f, Zero)} :
        req = [NoArgs EXCEPT !.fn = "mg1", !.lmbda = l, !.mu = m, !.dist = d,
                             !.has_var = TRUE, !.var = v]

ReqMg1Class ==
    \/ \E l \in Fractions, m \in Fractions, v \in Fractions :
          req = [NoArgs EXCEPT !.fn = "Mg1.mg1", !.lam = l, !.mi = m, !.var = v]
    \/ \E v \in ExampleVars :
          req = [NoArgs EXCEPT !.fn = "Mg1.mg1", !.lam = ExampleLam,
                               !.mi = ExampleMi, !.var = v]

(* N travels in the field K of the request *)
ReqMm1n ==
    \E l \in PopRates, m \in PopRates, N \in Populations, q \in PopQueries :
        req = [NoArgs EXCEPT !.fn = "mm1n", !.lmbda = l, !.mu = m, !.K = N,
                             !.has_n = q[1], !.n = q[2]]

ReqMmsn ==
    \E l \in PopRates, m \in PopRates, s \in ServerCounts,
       N \in Populations, q \in PopQueries :
        req = [NoArgs EXCEPT !.fn = "mmsn", !.lmbda = l, !.mu = m, !.s = s, !.K = N,
                             !.has_n = q[1], !.n = q[2]]

ReqMg1Prioridades ==
    \/ \E ls \in LamLists, l \in {Zero, <<1, 2>>}, m \in Fractions, v \in {Zero, One} :
          req = [NoArgs EXCEPT !.fn = "Mg1.mg1_prioridades_nao_preemptivo",
                               !.lam = l, !.mi = m, !.var = v, !.lam_list = ls]
    \/ req = [NoArgs EXCEPT !.fn = "Mg1.mg1_prioridades_nao_preemptivo",
                            !.mi = One, !.lam_list = NearSaturation]

(* lambda_total and mi travel in the fields lmbda and mu of the request;    *)
(* the preemptive form is called with lambda_total >= 0                    *)
ReqForm ==
    \/ \E l \in FormRates, m \in FormRates, s \in FormServers, ps \in FormLists :
          req = [NoArgs EXCEPT !.fn = "calcular_mms_prioridade_sem_interrupcao",
                               !.lmbda = l, !.mu = m, !.s = s, !.fields = ps]
    \/ \E l \in 0 .. MaxFormRate, m \in FormRates, s \in FormServers, ps \in FormLists :
          req = [NoArgs EXCEPT !.fn = "calcular_mms_prioridade_com_interrupcao",
                               !.lmbda = l, !.mu = m, !.s = s, !.fields = ps]

(* the constructor arguments of Mmsn; n_pop travels in the field K *)
ReqMmsnClass ==
    \E f \in {"Mmsn.mmsn", "formulas.Mmsn.mmsn"},
       l \in PopRates, m \in PopRates, s \in ServerCounts, N \in Populations :
        req = [NoArgs EXCEPT !.fn = f, !.lmbda = l, !.mu = m, !.s = s, !.K = N]

Init ==
    /\ \/ ReqMm1 \/ ReqMms \/ ReqMg1 \/ ReqErlangC \/ ReqPriority
       \/ ReqMm1k \/ ReqMmsk \/ ReqMm1n \/ ReqMmsn
       \/ ReqMg1Keyword \/ ReqMg1Class \/ ReqMg1Prioridades \/ ReqForm
       \/ ReqMmsnClass \/ ReqExtended \/ ReqPreemptiveLoop
       \/ ReqComInterrupcaoLoop \/ ReqFormErlangC \/ ReqMmsTimed \/ ReqMmClass
       \/ ReqManyServers \/ ReqMm1N \/ ReqMmsN \/ ReqCaptureOutput
    /\ res = NoResult
    /\ prev = NoResult
    /\ calls = 0
    /\ obj = NoObject

CallMm1 ==
    /\ req.fn = "mm1" /\ calls < MaxCalls
    /\ res' = mm1(req.lmbda, req.mu)
    /\ prev' = res /\ calls' = calls + 1
    /\ UNCHANGED <<req, obj>>

CallMms ==
    /\ req.fn = "mms" /\ calls < MaxCalls
    /\ res' = mms(req.lmbda, req.mu, req.s)
    /\ prev' = res /\ calls' = calls + 1
    /\ UNCHANGED <<req, obj>>

CallMg1 ==
    /\ req.fn = "mg1" /\ calls < MaxCalls
    /\ res' = mg1(req.lmbda, req.mu, req.dist)
    /\ prev' = res /\ calls' = calls + 1
    /\ UNCHANGED <<req, obj>>

CallErlangC ==
    /\ req.fn = "erlang_c" /\ calls < MaxCalls
    /\ res' = erlang_c(req.lmbda, req.mu, req.s)
    /\ prev' = res /\ calls' = calls + 1
    /\ UNCHANGED <<req, obj>>

CallPriorityPreemptive ==
    /\ req.fn = "mms_priority_preemptive" /\ calls < MaxCalls
    /\ res' = mms_priority_preemptive(req.rates, req.mu, req.s)
    /\ prev' = res /\ calls' = calls + 1
    /\ UNCHANGED <<req, obj>>

CallPriorityNonPreemptive ==
    /\ req.fn = "mms_priority_non_preemptive" /\ calls < MaxCalls
    /\ res' = mms_priority_non_preemptive(req.rates, req.mu, req.s)
    /\ prev' = res /\ calls' = calls + 1
    /\ UNCHANGED <<req, obj>>

CallMm1k ==
    /\ req.fn = "mm1k" /\ calls < MaxCalls
    /\ res' = mm1k(req.lmbda, req.mu, req.K, req.has_n, req.n)
    /\ prev' = res /\ calls' = calls + 1
    /\ UNCHANGED <<req, obj>>

CallMmsk ==
    /\ req.fn = "mmsk" /\ calls < MaxCalls
    /\ res' = mmsk(req.lmbda, req.mu, req.s, req.K, req.has_n, req.n)
    /\ prev' = res /\ calls' = calls + 1
    /\ UNCHANGED <<req, obj>>

CallMm1n ==
    /\ req.fn = "mm1n" /\ calls < MaxCalls
    /\ res' = mm1n(req.lmbda, req.mu, req.K, req.has_n, req.n)
    /\ prev' = res /\ calls' = calls + 1
    /\ UNCHANGED <<req, obj>>

CallMmsn ==
    /\ req.fn = "mmsn" /\ calls < MaxCalls
    /\ res' = mmsn(req.lmbda, req.mu, req.s, req.K, req.has_n, req.n)
    /\ prev' = res /\ calls' = calls + 1
    /\ UNCHANGED <<req, obj>>

CallMg1Class ==
    /\ req.fn = "Mg1.mg1" /\ calls < MaxCalls
    /\ res' = Mg1_construct_mg1(Mg1_init(req.lam, req.mi, req.var, <<>>))
    /\ prev' = res /\ calls' = calls + 1
    /\ UNCHANGED <<req, obj>>

CallMg1Prioridades ==
    /\ req.fn = "Mg1.mg1_prioridades_nao_preemptivo" /\ calls < MaxCalls
    /\ res' = Mg1_construct_prioridades(Mg1_init(req.lam, req.mi, req.var, req.lam_list))
    /\ prev' = res /\ calls' = calls + 1
    /\ UNCHANGED <<req, obj>>

CallSemInterrupcao ==
    /\ req.fn = "calcular_mms_prioridade_sem_interrupcao" /\ calls < MaxCalls
    /\ res' = calcular_mms_prioridade_sem_interrupcao(req.lmbda, req.mu, req.s, req.fields)
    /\ prev' = res /\ calls' = calls + 1
    /\ UNCHANGED <<req, obj>>

CallComInterrupcao ==
    /\ req.fn = "calcular_mms_prioridade_com_interrupcao" /\ calls < MaxCalls
    /\ res' = calcular_mms_prioridade_com_interrupcao(req.lmbda, req.mu, req.s, req.fields)
    /\ prev' = res /\ calls' = calls + 1
    /\ UNCHANGED <<req, obj>>

(* the object once constructed, or the exception of the constructor *)
Constructed(object) ==
    IF object.kind = "raise"
    THEN res' = object /\ obj' = obj
    ELSE res' = res /\ obj' = object

(* Mmsn(lam_por_cliente, mi, s, n_pop) *)
NewMmsn ==
    /\ req.fn \in {"Mmsn.mmsn", "formulas.Mmsn.mmsn"}
    /\ obj = NoObject /\ res = NoResult
    /\ Constructed(Mmsn_init(req.lmbda, req.mu, req.s, req.K))
    /\ UNCHANGED <<req, prev, calls>>

(* the object as the method leaves it and the value the method returns *)
Applied(outcome) == res' = outcome.result /\ obj' = outcome.self

CallMmsnMmsn ==
    /\ req.fn = "Mmsn.mmsn" /\ obj # NoObject /\ calls < MaxCalls
    /\ Applied(Mmsn_mmsn(obj, TRUE))
    /\ prev' = res /\ calls' = calls + 1
    /\ UNCHANGED req

CallFormulasMmsn ==
    /\ req.fn = "formulas.Mmsn.mmsn" /\ obj # NoObject /\ calls < MaxCalls
    /\ Applied(Mmsn_mmsn(obj, FALSE))
    /\ prev' = res /\ calls' = calls + 1
    /\ UNCHANGED req

CallWithPreemption ==
    /\ req.fn = "priority_with_preemption" /\ calls < MaxCalls
    /\ res' = priority_with_preemption(req.rates, req.mu, req.has_s, req.s)
    /\ prev' = res /\ calls' = calls + 1
    /\ UNCHANGED <<req, obj>>

CallWithoutPreemption ==
    /\ req.fn = "priority_without_preemption" /\ calls < MaxCalls
    /\ res' = priority_without_preemption(req.rates, req.mu, req.has_s, req.s)
    /\ prev' = res /\ calls' = calls + 1
    /\ UNCHANGED <<req, obj>>

CallFormErlangC ==
    /\ req.fn = "_erlang_c" /\ calls < MaxCalls
    /\ res' = form_erlang_c(Rat(req.lmbda), req.mu, req.s)
    /\ prev' = res /\ calls' = calls + 1
    /\ UNCHANGED <<req, obj>>

CallMmsTimed ==
    /\ req.fn = "mms:t" /\ calls < MaxCalls
    /\ res' = mms_timed(req.lmbda, req.mu, req.s, req.t)
    /\ prev' = res /\ calls' = calls + 1
    /\ UNCHANGED <<req, obj>>

(* Mm(lam, mi, s) *)
NewMm ==
    /\ req.fn \in {"Mm.prob_wq_maior_que_t", "formulas.Mm.prob_wq_maior_que_t"}
    /\ obj = NoObject /\ res = NoResult
    /\ Constructed(Mm_init(req.lmbda, req.mu, req.s))
    /\ UNCHANGED <<req, prev, calls>>

CallMmProbWq ==
    /\ req.fn \in {"Mm.prob_wq_maior_que_t", "formulas.Mm.prob_wq_maior_que_t"}
    /\ obj # NoObject /\ calls < MaxCalls
    /\ res' = Mm_prob_wq_maior_que_t(obj, req.t)
    /\ prev' = res /\ calls' = calls + 1
    /\ UNCHANGED <<req, obj>>

CallManyServers ==
    /\ req.fn \in {"mms:s", "erlang_c:s"} /\ calls < MaxCalls
    /\ res' = IF req.fn = "mms:s" THEN mms(req.lmbda, req.mu, req.s)
                                  ELSE erlang_c(req.lmbda, req.mu, req.s)
    /\ prev' = res /\ calls' = calls + 1
    /\ UNCHANGED <<req, obj>>

CallMm1N ==
    /\ req.fn = "mm1:n" /\ calls < MaxCalls
    /\ res' = mm1_n(req.lmbda, req.mu, req.n)
    /\ prev' = res /\ calls' = calls + 1
    /\ UNCHANGED <<req, obj>>

CallMmsN ==
    /\ req.fn = "mms:n" /\ calls < MaxCalls
    /\ res' = mms_n(req.lmbda, req.mu, req.s, req.n)
    /\ prev' = res /\ calls' = calls + 1
    /\ UNCHANGED <<req, obj>>

(* the program starts: sys.stdout is bound to some stream *)
RunApp ==
    /\ req.fn = "capture_output" /\ obj = NoObject /\ res = NoResult
    /\ \E stream \in Streams : obj' = Interpreter(stream, stream)
    /\ UNCHANGED <<req, res, prev, calls>>

(* capture_output up to its try statement *)
EnterCaptureOutput ==
    /\ req.fn = "capture_output" /\ obj.kind = "interpreter" /\ calls < MaxCalls
    /\ obj' = capture_output_entered(obj)
    /\ UNCHANGED <<req, res, prev, calls>>

(* the try block, the call of func included *)
CaptureOutputTry ==
    /\ req.fn = "capture_output" /\ obj.kind = "capture" /\ obj.at = "try"
    /\ \E outcome \in TryOutcomes, rebound \in Rebindings :
           obj' = capture_output_tried(obj, outcome, rebound)
    /\ UNCHANGED <<req, res, prev, calls>>

(* the except clause *)
CaptureOutputExcept ==
    /\ req.fn = "capture_output" /\ obj.kind = "capture" /\ obj.at = "except"
    /\ \E raised \in BOOLEAN : obj' = capture_output_handled(obj, raised)
    /\ UNCHANGED <<req, res, prev, calls>>

(* the finally clause, and the call ends *)
CaptureOutputFinally ==
    /\ req.fn = "capture_output" /\ obj.kind = "capture" /\ obj.at = "finally"
    /\ obj' = capture_output_finally(obj)
    /\ res' = capture_output_outcome(obj)
    /\ prev' = res /\ calls' = calls + 1
    /\ UNCHANGED req

(* a call followed through its loop ends: res is what it returns or raises *)
(* and its local variables are gone                                        *)
Left(outcome) ==
    /\ res' = outcome
    /\ prev' = res /\ calls' = calls + 1
    /\ obj' = NoObject

(* mms_priority_preemptive, s # 1, from the call to the first pass *)
EnterPreemptiveLoop ==
    /\ req.fn = "mms_priority_preemptive:loop" /\ obj = NoObject /\ res = NoResult
    /\ LET entered == preemptive_entered(
                          validate_common_inputs(req.rates, req.mu, req.s), req.mu, req.s)
       IN  IF entered.kind = "loop"
           THEN obj' = entered /\ UNCHANGED <<res, prev, calls>>
           ELSE Left(entered)
    /\ UNCHANGED req

(* one pass of the loop; the last pass is followed by the return *)
PreemptivePass ==
    /\ req.fn = "mms_priority_preemptive:loop" /\ obj.kind = "loop"
    /\ LET round == preemptive_round_at(obj.rates, obj.prefix, obj.mu, obj.s,
                                        obj.idx, obj.W_list)
       IN  IF round.kind = "raise" THEN Left(round)
           ELSE IF obj.idx = Len(obj.rates)
                THEN Left(preemptive_returned(preemptive_appended(obj, round)))
           ELSE obj' = preemptive_appended(obj, round) /\ UNCHANGED <<res, prev, calls>>
    /\ UNCHANGED req

(* calcular_mms_prioridade_com_interrupcao from the call to the first pass *)
EnterComInterrupcaoLoop ==
    /\ req.fn = "calcular_mms_prioridade_com_interrupcao:loop"
    /\ obj = NoObject /\ res = NoResult
    /\ LET entered == com_interrupcao_entered(req.lmbda, req.mu, req.s, req.fields)
       IN  IF entered.kind = "loop"
           THEN obj' = entered /\ UNCHANGED <<res, prev, calls>>
           ELSE Left(entered)
    /\ UNCHANGED req

(* one pass of the loop; the last pass is followed by the return *)
ComInterrupcaoPass ==
    /\ req.fn = "calcular_mms_prioridade_com_interrupcao:loop" /\ obj.kind = "loop"
    /\ LET round == com_interrupcao_round(obj.lambdas_, obj.mi, obj.s, obj.rho,
                                          obj.i, obj.Ws_acumulado, obj.resultados)
       IN  IF round.kind # "next" THEN Left(round)
           ELSE IF obj.i = Len(obj.lambdas_) THEN Left(arredondar(round.resultados))
           ELSE obj' = com_interrupcao_passed(obj, round)
                /\ UNCHANGED <<res, prev, calls>>
    /\ UNCHANGED req

Next ==
    \/ CallMm1
    \/ CallMms
    \/ CallMg1
    \/ CallErlangC
    \/ CallPriorityPreemptive
    \/ CallPriorityNonPreemptive
    \/ CallMm1k
    \/ CallMmsk
    \/ CallMm1n
    \/ CallMmsn
    \/ CallMg1Class
    \/ CallMg1Prioridades
    \/ CallSemInterrupcao
    \/ CallComInterrupcao
    \/ NewMmsn
    \/ CallMmsnMmsn
    \/ CallFormulasMmsn
    \/ CallWithPreemption
    \/ CallWithoutPreemption
    \/ EnterPreemptiveLoop
    \/ PreemptivePass
    \/ EnterComInterrupcaoLoop
    \/ ComInterrupcaoPass
    \/ CallFormErlangC
    \/ CallMmsTimed
    \/ NewMm
    \/ CallMmProbWq
    \/ CallManyServers
    \/ CallMm1N
    \/ CallMmsN
    \/ RunApp
    \/ EnterCaptureOutput
    \/ CaptureOutputTry
    \/ CaptureOutputExcept
    \/ CaptureOutputFinally

Spec == Init /\ [][Next]_vars

(***************************************************************************)
(* Vocabulary of the properties.                                           *)
(***************************************************************************)
Done == res.kind # "none"

Returned == res.kind = "return"

Raised == res.kind = "raise"

(* the server count of the call: mm1 and mg1 are single-server models *)
Servers == IF req.fn \in {"mm1", "mg1"} THEN 1 ELSE req.s

InstabilityRaised ==
    /\ Raised
    /\ res.exc = "ValueError"
    /\ res.msg \in {"Sistema instavel", "Subfila instavel"}

KnownDist == strip_lower(req.dist) \in {"poisson", "exponential", "deterministic"}

(***************************************************************************)
(* C1.  Every call of mm1, mg1, mms or erlang_c with mu > 0, integer       *)
(* s >= 1 and lambda >= s * mu raises an instability error and returns no  *)
(* metrics record.  (For mg1 the distribution tag is a known one, so that  *)
(* no other check rejects the call first.)                                 *)
(* mm1, mms and erlang_c do; mg1(49, 49) returns a record, because its rho *)
(* is the double 49 * (1.0 / 49) = 0.9999999999999999.                     *)
(***************************************************************************)
C1_InstabilityRejected ==
    (/\ Done
     /\ req.fn \in {"mm1", "mg1", "mms", "erlang_c"}
     /\ req.fn = "mg1" => KnownDist
     /\ req.mu > 0
     /\ Servers >= 1
     /\ req.lmbda >= Servers * req.mu)
    => InstabilityRaised

(***************************************************************************)
(* C2.  Little's law: every record returned by mm1, mms or mg1 on a stable *)
(* input (mu > 0, s >= 1, 0 < lambda < s * mu) has L = lambda * W and      *)
(* Lq = lambda * Wq, exactly.                                              *)
(***************************************************************************)
StableSingleClass ==
    /\ req.fn \in {"mm1", "mms", "mg1"}
    /\ req.mu > 0
    /\ Servers >= 1
    /\ 0 < req.lmbda
    /\ req.lmbda < Servers * req.mu

C2_LittlesLaw ==
    (Done /\ StableSingleClass /\ Returned)
    => /\ res.L = RMul(Rat(req.lmbda), res.W)
       /\ res.Lq = RMul(Rat(req.lmbda), res.Wq)

(* mg1(2, 3, "exponential") returns W = 1, L = 2, Wq = 2/3, Lq = 4/3 *)
C2_Witness ==
    /\ req.fn = "mg1" /\ req.lmbda = 2 /\ req.mu = 3 /\ req.dist = "exponential"
    /\ Returned
    /\ res.W = <<1, 1>> /\ res.L = <<2, 1>>
    /\ res.Wq = <<2, 3>> /\ res.Lq = <<4, 3>>

(***************************************************************************)
(* Vocabulary of the priority properties.                                  *)
(***************************************************************************)
PriorityCall ==
    req.fn \in {"mms_priority_preemptive", "mms_priority_non_preemptive"}

(* R_k = lambda_1 + ... + lambda_k of the call, R_0 = 0 *)
R(k) == SumInts(req.rates, k)

TotalRate == R(Len(req.rates))

(* a non-empty list of rates >= 0, mu > 0 and s >= 1 *)
WellFormedPriority ==
    /\ PriorityCall
    /\ Len(req.rates) >= 1
    /\ \A i \in 1 .. Len(req.rates) : req.rates[i] >= 0
    /\ req.mu > 0
    /\ req.s >= 1

StablePriority == WellFormedPriority /\ TotalRate < req.s * req.mu

AllPositive == \A i \in 1 .. Len(req.rates) : req.rates[i] > 0

Classes == 1 .. Len(req.rates)

(***************************************************************************)
(* C3.  For every stable priority input with all lambda_i > 0 and          *)
(* sum lambda_i < s * mu, the preemptive and the non-preemptive engine,    *)
(* for s = 1 and for s > 1, return a result whose aggregate W and Wq equal *)
(* the W and Wq of the single-class model (mm1 for s = 1, mms otherwise)   *)
(* called with lambda = sum lambda_i.                                      *)
(***************************************************************************)
SingleClass ==
    IF req.s = 1 THEN mm1(TotalRate, req.mu) ELSE mms(TotalRate, req.mu, req.s)

C3_AggregateMatchesSingleClass ==
    (Done /\ StablePriority /\ AllPositive)
    => /\ Returned
       /\ SingleClass.kind = "return"
       /\ res.W = SingleClass.W
       /\ res.Wq = SingleClass.Wq

(* rates 1 and 2 on two servers of rate 2, preemptive: the classes spend    *)
(* different times in the system, the aggregate is that of mms(3, 2, 2)    *)
C3_Witness ==
    /\ req.fn = "mms_priority_preemptive"
    /\ req.rates = <<1, 2>> /\ req.mu = 2 /\ req.s = 2
    /\ Returned
    /\ Len(res.per_class) = 2
    /\ res.per_class[1].W # res.per_class[2].W
    /\ res.W = <<8, 7>> /\ res.Wq = <<9, 14>>
    /\ res.W = mms(3, 2, 2).W

(***************************************************************************)
(* C4.  For s = 1 and every stable rate list, the preemptive engine        *)
(* returns for each class k  W_k = mu / ((mu - R_{k-1}) * (mu - R_k)) and  *)
(* Wq_k = W_k - 1/mu; for lambda = [2, 4, 2], mu = 10 that is W = 0.125,   *)
(* 0.3125, 1.25.                                                           *)
(* As stated (C4_EveryStableList) this fails on a list of zero rates,      *)
(* for which the engine returns W_k = Wq_k = 0 without running the         *)
(* recurrence; it holds of every stable list with lambda_total > 0         *)
(* (C4_PreemptiveClassTimes).                                              *)
(***************************************************************************)
PreemptiveSingleServer ==
    /\ req.fn = "mms_priority_preemptive"
    /\ StablePriority
    /\ req.s = 1

PreemptiveFormula(k) ==
    /\ res.per_class[k].W =
           RDiv(Rat(req.mu), RMul(Rat(req.mu - R(k - 1)), Rat(req.mu - R(k))))
    /\ res.per_class[k].Wq = RSub(res.per_class[k].W, RDiv(One, Rat(req.mu)))

PreemptiveExample ==
    (req.rates = ExampleRates /\ req.mu = ExampleMu)
    => /\ res.per_class[1].W = <<1, 8>>
       /\ res.per_class[2].W = <<5, 16>>
       /\ res.per_class[3].W = <<5, 4>>

C4_EveryStableList ==
    (Done /\ PreemptiveSingleServer)
    => /\ Returned
       /\ Len(res.per_class) = Len(req.rates)
       /\ \A k \in Classes : PreemptiveFormula(k)
       /\ PreemptiveExample

C4_PreemptiveClassTimes ==
    (Done /\ PreemptiveSingleServer /\ TotalRate > 0)
    => /\ Returned
       /\ Len(res.per_class) = Len(req.rates)
       /\ \A k \in Classes : PreemptiveFormula(k)
       /\ PreemptiveExample

C4_Witness ==
    /\ req.fn = "mms_priority_preemptive"
    /\ req.rates = ExampleRates /\ req.mu = ExampleMu /\ req.s = 1
    /\ Returned
    /\ res.per_class[1].W = <<1, 8>> /\ res.per_class[1].Wq = <<1, 40>>
    /\ res.per_class[3].W = <<5, 4>> /\ res.per_class[3].Wq = <<23, 20>>

(***************************************************************************)
(* C5.  For s = 1 (every class served at the exponential rate mu, so       *)
(* A = lambda_total * 2 / mu^2) the non-preemptive engine returns for each *)
(* class k  Wq_k = A / (2 * (1 - R_{k-1}/mu) * (1 - R_k/mu)),              *)
(* W_k = Wq_k + 1/mu, L_k = lambda_k * W_k and Lq_k = L_k - lambda_k/mu;   *)
(* for lambda = [2, 4, 2], mu = 10 that is W = 0.2, 0.35, 1.1.             *)
(* mm1_priority_non_preemptive([0], 1) returns W_1 = 0, not                *)
(* Wq_1 + 1/mu = 1: a list of zero rates is handed to the preemptive       *)
(* engine, which answers with an all-zero record.                          *)
(***************************************************************************)
NonPreemptiveSingleServer ==
    /\ req.fn = "mms_priority_non_preemptive"
    /\ StablePriority
    /\ req.s = 1

NonPreemptiveFormula(k) ==
    LET mu == Rat(req.mu)
        A == RDiv(Rat(TotalRate * 2), RPow(mu, 2))
        lambda_k == Rat(req.rates[k])
        free(j) == RSub(One, RDiv(Rat(R(j)), mu))
        class == res.per_class[k]
    IN  /\ class.Wq = RDiv(A, RMul(Rat(2), RMul(free(k - 1), free(k))))
        /\ class.W = RAdd(class.Wq, RDiv(One, mu))
        /\ class.L = RMul(lambda_k, class.W)
        /\ class.Lq = RSub(class.L, RDiv(lambda_k, mu))

NonPreemptiveExample ==
    (req.rates = ExampleRates /\ req.mu = ExampleMu)
    => /\ res.per_class[1].W = <<1, 5>>
       /\ res.per_class[2].W = <<7, 20>>
       /\ res.per_class[3].W = <<11, 10>>

C5_NonPreemptiveClassTimes ==
    (Done /\ NonPreemptiveSingleServer)
    => /\ Returned
       /\ Len(res.per_class) = Len(req.rates)
       /\ \A k \in Classes : NonPreemptiveFormula(k)
       /\ NonPreemptiveExample

(* what does hold: the formulas and the example, whenever lambda_total > 0 *)
C5_WithPositiveTotal ==
    (Done /\ NonPreemptiveSingleServer /\ TotalRate > 0)
    => /\ Returned
       /\ Len(res.per_class) = Len(req.rates)
       /\ \A k \in Classes : NonPreemptiveFormula(k)
       /\ NonPreemptiveExample

(***************************************************************************)
(* C6.  When some prefix rate R_k reaches or exceeds the capacity s * mu   *)
(* (mu for s = 1), the priority engine raises an instability error that    *)
(* names the offending class k, an error distinct from the rejection of    *)
(* the aggregate rate by validate_common_inputs.                           *)
(* The engines never get that far: the rates being >= 0, R_k >= s * mu     *)
(* makes lambda_total >= s * mu, and validate_common_inputs rejects the    *)
(* call first, with the aggregate message, which names no class.           *)
(***************************************************************************)
Offending == {k \in Classes : R(k) >= req.s * req.mu}

FirstOffending == CHOOSE k \in Offending : \A j \in Offending : k <= j

C6_OffendingClassNamed ==
    (Done /\ WellFormedPriority /\ Offending # {})
    => /\ Raised
       /\ res.exc = "ValueError"
       /\ res.msg = "A subfila ate a classe ficou instavel"
       /\ res.cls = FirstOffending

(* what the code does instead: every such call is rejected before the loop *)
C6_AggregateRejection ==
    (Done /\ WellFormedPriority /\ Offending # {})
    => /\ Raised
       /\ res.msg = "Sistema instavel: lambda_total >= s*mu"
       /\ res.cls = 0

(***************************************************************************)
(* C7.  For every result a priority engine returns (preemptive or not,     *)
(* any s) the aggregate L is the sum of the L fields of its per_class      *)
(* records and the aggregate Lq the sum of their Lq fields, W = L /        *)
(* lambda_total and Wq = Lq / lambda_total (both 0 when lambda_total = 0). *)
(* As stated (C7_SumOfReportedFields) this fails for the preemptive        *)
(* engine with two classes or more: the L and Lq fields of its records are *)
(* cumulative through class k (R_k * W_k), the class's own values being    *)
(* kept in L_class and Lq_class.  What holds (C7_SumOfClassValues): the    *)
(* aggregate L and Lq are the sums of the classes' own values, L_class and *)
(* Lq_class where a record has them and L and Lq otherwise, and W and Wq   *)
(* are as stated.                                                          *)
(***************************************************************************)
RECURSIVE SumOver(_, _)
SumOver(values, upto) ==
    IF upto = 0 THEN Zero ELSE RAdd(SumOver(values, upto - 1), values[upto])

ReportedL(k) == res.per_class[k].L

ReportedLq(k) == res.per_class[k].Lq

ClassL(k) ==
    IF "L_class" \in DOMAIN res.per_class[k]
    THEN res.per_class[k].L_class ELSE res.per_class[k].L

ClassLq(k) ==
    IF "Lq_class" \in DOMAIN res.per_class[k]
    THEN res.per_class[k].Lq_class ELSE res.per_class[k].Lq

AggregateTimes ==
    /\ res.lambda_total = Rat(TotalRate)
    /\ res.W = IF TotalRate = 0 THEN Zero ELSE RDiv(res.L, Rat(TotalRate))
    /\ res.Wq = IF TotalRate = 0 THEN Zero ELSE RDiv(res.Lq, Rat(TotalRate))

C7_SumOfReportedFields ==
    (Done /\ PriorityCall /\ Returned)
    => /\ res.L = SumOver([k \in 1 .. Len(res.per_class) |-> ReportedL(k)], Len(res.per_class))
       /\ res.Lq = SumOver([k \in 1 .. Len(res.per_class) |-> ReportedLq(k)], Len(res.per_class))
       /\ AggregateTimes

C7_SumOfClassValues ==
    (Done /\ PriorityCall /\ Returned)
    => /\ Len(res.per_class) = Len(req.rates)
       /\ res.L = SumOver([k \in 1 .. Len(res.per_class) |-> ClassL(k)], Len(res.per_class))
       /\ res.Lq = SumOver([k \in 1 .. Len(res.per_class) |-> ClassLq(k)], Len(res.per_class))
       /\ AggregateTimes

(* rates 1 and 1 on one server of rate 3, preemptive: W = 1/2 and 3/2, the  *)
(* second record reports L = R_2 * W_2 = 3 and keeps L_class = 3/2; the     *)
(* aggregate L is 1/2 + 3/2 = 2                                             *)
C7_Witness ==
    /\ req.fn = "mms_priority_preemptive"
    /\ req.rates = <<1, 1>> /\ req.mu = 3 /\ req.s = 1
    /\ Returned
    /\ res.per_class[2].L = <<3, 1>>
    /\ res.per_class[2].L_class = <<3, 2>>
    /\ res.L = <<2, 1>>
    /\ res.W = <<1, 1>>

(***************************************************************************)
(* C8.  For all mu > 0, s >= 1 and 0 < lambda < s * mu, mms returns        *)
(* rho = lambda / (s * mu), p0 = 1 / (sum_{n<s} a^n/n! + (a^s/s!)/(1-rho)) *)
(* with a = lambda / mu, Lq = p0 * a^s * rho / (s! * (1 - rho)^2),         *)
(* L = Lq + a, W = L / lambda and Wq = Lq / lambda; for lambda = 2,        *)
(* mu = 3, s = 2: rho = 1/3, p0 = 1/2, Lq = 1/12, L = 3/4, Wq = 1/24,      *)
(* W = 3/8.                                                                *)
(***************************************************************************)
StableMms ==
    /\ req.fn = "mms"
    /\ req.mu > 0
    /\ req.s >= 1
    /\ 0 < req.lmbda
    /\ req.lmbda < req.s * req.mu

MmsFormulas ==
    LET lambda == Rat(req.lmbda)
        a == RDiv(lambda, Rat(req.mu))
        rho == RDiv(lambda, Rat(req.s * req.mu))
        s_fact == Rat(factorial(req.s))
        below(n) == RDiv(RPow(a, n - 1), Rat(factorial(n - 1)))
        p0 == RDiv(One, RAdd(SumOver([n \in 1 .. req.s |-> below(n)], req.s),
                             RDiv(RDiv(RPow(a, req.s), s_fact), RSub(One, rho))))
        Lq == RDiv(RMul(RMul(p0, RPow(a, req.s)), rho),
                   RMul(s_fact, RMul(RSub(One, rho), RSub(One, rho))))
    IN  /\ res.rho = rho
        /\ res.p0 = p0
        /\ res.Lq = Lq
        /\ res.L = RAdd(Lq, a)
        /\ res.W = RDiv(res.L, lambda)
        /\ res.Wq = RDiv(Lq, lambda)

MmsExample ==
    (req.lmbda = 2 /\ req.mu = 3 /\ req.s = 2)
    => /\ res.rho = <<1, 3>> /\ res.p0 = <<1, 2>>
       /\ res.Lq = <<1, 12>> /\ res.L = <<3, 4>>
       /\ res.Wq = <<1, 24>> /\ res.W = <<3, 8>>

FiniteCapacityCall ==
    /\ req.fn \in {"mm1k", "mmsk"}
    /\ req.lmbda > 0
    /\ req.mu > 0
    /\ IF req.fn = "mm1k" THEN req.K >= 0 ELSE req.s >= 1 /\ req.K >= req.s

StateProbability(n) == res.pn_func[n - 1]

C9_ProbabilitiesSumToOne ==
    (Done /\ FiniteCapacityCall /\ Returned)
    => /\ DOMAIN res.pn_func = 0 .. req.K
       /\ \A n \in 0 .. req.K : RGe(res.pn_func[n], Zero) /\ RLe(res.pn_func[n], One)
       /\ SumOver([n \in 1 .. req.K + 1 |-> StateProbability(n)], req.K + 1) = One
       /\ req.has_n => res.pn = res.pn_func[req.n]

(* mm1k(1, 2, K = 2, n = 2): p = 4/7, 2/7, 1/7 *)
C9_Witness ==
    /\ req.fn = "mm1k" /\ req.lmbda = 1 /\ req.mu = 2 /\ req.K = 2
    /\ req.has_n /\ req.n = 2
    /\ Returned
    /\ res.pn_func[0] = <<4, 7>> /\ res.pn_func[1] = <<2, 7>>
    /\ res.pn_func[2] = <<1, 7>> /\ res.pn = <<1, 7>>

(***************************************************************************)
(* C10.  For every mm1k and mmsk result with lambda > 0, the returned L is *)
(* the direct sum of n * p_n over n = 0 .. K, taken over the model's own   *)
(* state probabilities, and is also lambda_eff * W: the two ways of        *)
(* obtaining L agree.                                                      *)
(***************************************************************************)
WeightedProbability(n) == RMul(Rat(n - 1), res.pn_func[n - 1])

C10_MeanNumberInSystem ==
    (Done /\ req.fn \in {"mm1k", "mmsk"} /\ req.lmbda > 0 /\ Returned)
    => /\ res.L = SumOver([n \in 1 .. req.K + 1 |-> WeightedProbability(n)], req.K + 1)
       /\ res.L = RMul(res.lambda_eff, res.W)

(* mmsk(1, 1, s = 2, K = 3): p = 4/11, 4/11, 2/11, 1/11, so L = 1, and      *)
(* lambda_eff = 10/11, W = 11/10                                            *)
C10_Witness ==
    /\ req.fn = "mmsk" /\ req.lmbda = 1 /\ req.mu = 1 /\ req.s = 2 /\ req.K = 3
    /\ Returned
    /\ res.pn_func[3] = <<1, 11>>
    /\ res.L = <<1, 1>>
    /\ res.lambda_eff = <<10, 11>> /\ res.W = <<11, 10>>

(***************************************************************************)
(* C11.  mm1k and mmsk return a metrics record for every lambda > 0,       *)
(* mu > 0 and K >= s (s = 1 for mm1k), whatever rho = lambda / (s * mu)    *)
(* is, when the query n, if there is one, lies in 0 .. K; in particular no *)
(* error is raised at rho = 1.                                             *)
(* mm1k does; mmsk raises a ValueError whenever lambda = s * mu.           *)
(***************************************************************************)
QueryInRange == req.has_n => (0 <= req.n /\ req.n <= req.K)

C11_FiniteCapacityAlwaysReturns ==
    (/\ Done
     /\ req.fn \in {"mm1k", "mmsk"}
     /\ req.lmbda > 0
     /\ req.mu > 0
     /\ IF req.fn = "mm1k" THEN req.K >= 1 ELSE req.s >= 1 /\ req.K >= req.s
     /\ QueryInRange)
    => Returned

(***************************************************************************)
(* C12.  mmsk raises an error whenever K < s, and mmsn raises an error     *)
(* whenever N < s; neither returns metrics then.                           *)
(* mmsk does; mmsn has no such check and returns a record, for instance    *)
(* for lmbda = 1, mu = 1, s = 2, N = 1.                                    *)
(***************************************************************************)
C12_FewerPlacesThanServers ==
    (Done /\ req.fn \in {"mmsk", "mmsn"} /\ req.K < req.s) => Raised

(* the half of C12 that holds: mmsk *)
C12_MmskRejects ==
    (Done /\ req.fn = "mmsk" /\ req.K < req.s) => Raised

(***************************************************************************)
(* Vocabulary of the finite-population properties.                         *)
(***************************************************************************)
(* mm1n or mmsn called with lambda > 0, mu > 0 and N >= 1 (N is req.K) *)
PopulationCall ==
    /\ req.fn \in {"mm1n", "mmsn"}
    /\ req.lmbda > 0
    /\ req.mu > 0
    /\ req.K >= 1
    /\ req.fn = "mmsn" => req.s >= 1

PopServers == IF req.fn = "mm1n" THEN 1 ELSE req.s

(* the state probabilities p_0 .. p_N of a returned record *)
Probabilities == IF req.fn = "mm1n" THEN res.pn_values ELSE res.p

Probability(n) == Probabilities[n - 1]

(* p_n * min(n, s) * mu = p_(n-1) * (N - n + 1) * lambda *)
Balanced(n) ==
    RMul(Probabilities[n], Rat(Min(n, PopServers) * req.mu))
        = RMul(Probabilities[n - 1], Rat((req.K - n + 1) * req.lmbda))

Stationary ==
    /\ DOMAIN Probabilities = 0 .. req.K
    /\ SumOver([n \in 1 .. req.K + 1 |-> Probability(n)], req.K + 1) = One
    /\ \A n \in 1 .. req.K : Balanced(n)

(***************************************************************************)
(* C13.  For mm1n (s = 1) and mmsn with lambda > 0, mu > 0 and N >= 1, the *)
(* state probabilities p_0 .. p_N of the result sum to 1 and satisfy       *)
(* p_n * min(n, s) * mu = p_(n-1) * (N - n + 1) * lambda for 1 <= n <= N:  *)
(* they are the stationary distribution of the birth-death chain with      *)
(* birth rate (N - n) * lambda and death rate min(n, s) * mu.              *)
(* mmsn's are; mm1n's are binomial, comb(N, k) * r^k * p0, the stationary  *)
(* distribution for the death rate n * mu, and differ as soon as N >= 2.   *)
(***************************************************************************)
C13_StationaryDistribution ==
    (Done /\ PopulationCall /\ Returned) => Stationary

(* the half of C13 that holds: mmsn *)
C13_MmsnStationary ==
    (Done /\ PopulationCall /\ req.fn = "mmsn" /\ Returned) => Stationary

(***************************************************************************)
(* C14.  For every mm1n and mmsn result with lambda > 0 and N >= 1: L is   *)
(* the sum of n * p_n, lambda_eff = lambda * (N - L),                      *)
(* Lq = L - lambda_eff / mu, W = L / lambda_eff and Wq = Lq / lambda_eff.  *)
(* mmsn's results are so; mm1n returns Lq = L - (1 - p0), which is not     *)
(* L - lambda_eff / mu when N >= 2.                                        *)
(***************************************************************************)
WeightedPopulation(n) == RMul(Rat(n - 1), Probabilities[n - 1])

PopulationMetrics ==
    /\ res.L = SumOver([n \in 1 .. req.K + 1 |-> WeightedPopulation(n)], req.K + 1)
    /\ res.lambda_eff = RMul(Rat(req.lmbda), RSub(Rat(req.K), res.L))
    /\ res.Lq = RSub(res.L, RDiv(res.lambda_eff, Rat(req.mu)))
    /\ res.W = RDiv(res.L, res.lambda_eff)
    /\ res.Wq = RDiv(res.Lq, res.lambda_eff)

C14_PopulationMetrics ==
    (Done /\ PopulationCall /\ Returned) => PopulationMetrics

(* the half of C14 that holds: mmsn *)
C14_MmsnMetrics ==
    (Done /\ PopulationCall /\ req.fn = "mmsn" /\ Returned) => PopulationMetrics

(***************************************************************************)
(* C15.  mg1 computes E[S^2] = sigma^2 + (1/mu)^2 from the variance the    *)
(* caller supplies when one is given, and otherwise from the variance of   *)
(* the distribution tag (poisson: 1/mu; exponential: 1/mu^2;               *)
(* deterministic: 0); with lambda = 0.2, mu = 0.25 and supplied            *)
(* sigma^2 = 16 it returns Lq = 3.2, L = 4, Wq = 16, W = 20.               *)
(* The class Mg1 uses the variance it is given and returns the example's   *)
(* values; the function mg1 uses the tag even when the call supplies a     *)
(* variance, which it receives among its keyword arguments and never reads.*)
(***************************************************************************)
(* the variance the distribution tag of the call stands for *)
TagVariance ==
    CASE strip_lower(req.dist) = "poisson" -> RDiv(One, Rat(req.mu))
      [] strip_lower(req.dist) = "exponential" -> RPow(RDiv(One, Rat(req.mu)), 2)
      [] strip_lower(req.dist) = "deterministic" -> Zero

SecondMoment(variance, mu) == RAdd(variance, RPow(RDiv(One, mu), 2))

Mg1Example ==
    (req.lam = ExampleLam /\ req.mi = ExampleMi /\ req.var = <<16, 1>>)
    => /\ Returned
       /\ res.Lq = <<16, 5>> /\ res.L = <<4, 1>>
       /\ res.Wq = <<16, 1>> /\ res.W = <<20, 1>>

C15_SuppliedVarianceUsed ==
    /\ (Done /\ req.fn = "mg1" /\ Returned)
       => res.ES2 = SecondMoment(IF req.has_var THEN req.var ELSE TagVariance,
                                 Rat(req.mu))
    /\ (Done /\ req.fn = "Mg1.mg1")
       => /\ Returned => res.e_s2 = SecondMoment(req.var, req.mi)
          /\ Mg1Example

(* what holds: the function follows the tag, the class the supplied variance *)
C15_TagOrClassVariance ==
    /\ (Done /\ req.fn = "mg1" /\ Returned)
       => res.ES2 = SecondMoment(TagVariance, Rat(req.mu))
    /\ (Done /\ req.fn = "Mg1.mg1")
       => /\ Returned => res.e_s2 = SecondMoment(req.var, req.mi)
          /\ Mg1Example

(***************************************************************************)
(* C16.  If every lambda_i of a non-empty rate list is 0 (and mu > 0,      *)
(* s >= 1), each priority function, preemptive and non-preemptive, for     *)
(* s = 1 and for s > 1, returns a record with rho, L, Lq, W and Wq all 0   *)
(* and one per-class record per input class whose W, Wq, L and Lq are all  *)
(* 0; no per-class formula is evaluated: the per-class records carry none  *)
(* of the fields the loops over the classes compute.                       *)
(***************************************************************************)
AllZero == \A i \in 1 .. Len(req.rates) : req.rates[i] = 0

ZeroClass(k) ==
    /\ res.per_class[k].priority = k
    /\ res.per_class[k].W = Zero /\ res.per_class[k].Wq = Zero
    /\ res.per_class[k].L = Zero /\ res.per_class[k].Lq = Zero
    /\ DOMAIN res.per_class[k]
         = {"priority", "lambda", "rho", "W", "Wq", "L", "Lq"}

C16_AllZeroRates ==
    (Done /\ WellFormedPriority /\ AllZero)
    => /\ Returned
       /\ res.rho = Zero /\ res.L = Zero /\ res.Lq = Zero
       /\ res.W = Zero /\ res.Wq = Zero
       /\ Len(res.per_class) = Len(req.rates)
       /\ \A k \in Classes : ZeroClass(k)

(* two classes of rate 0 on two servers, non-preemptive *)
C16_Witness ==
    /\ req.fn = "mms_priority_non_preemptive"
    /\ req.rates = <<0, 0>> /\ req.mu = 1 /\ req.s = 2
    /\ Returned
    /\ res.W = Zero /\ Len(res.per_class) = 2
    /\ res.per_class[2].W = Zero

(***************************************************************************)
(* C17.  Every call of mm1k or mmsk with a requested n outside 0 .. K, and *)
(* every call of mm1n or mmsn with a requested n outside 0 .. N, raises an *)
(* error and returns no metrics, for all otherwise valid parameters        *)
(* (lambda >= 0, mu > 0, s >= 1, K >= s, N >= 0), lambda = 0 and N = 0     *)
(* included.                                                               *)
(* The calls with lambda > 0 (mm1k, mmsk) or N > 0 (mm1n, mmsn) do; the    *)
(* branches for lmbda == 0 and for N == 0 return a record with pn = 0.     *)
(***************************************************************************)
(* a call of a finite model, valid but for its query (K holds K or N) *)
FiniteModelCall ==
    /\ req.fn \in {"mm1k", "mmsk", "mm1n", "mmsn"}
    /\ req.lmbda >= 0
    /\ req.mu > 0
    /\ req.fn \in {"mmsk", "mmsn"} => req.s >= 1
    /\ IF req.fn = "mmsk" THEN req.K >= req.s ELSE req.K >= 0

QueryOutOfRange == req.has_n /\ (req.n < 0 \/ req.n > req.K)

C17_QueryOutOfRangeRaises ==
    (Done /\ FiniteModelCall /\ QueryOutOfRange) => Raised

(* the part of C17 that holds: the calls that get past the early returns *)
C17_PastEarlyReturns ==
    (/\ Done /\ FiniteModelCall /\ QueryOutOfRange
     /\ IF req.fn \in {"mm1k", "mmsk"} THEN req.lmbda > 0 ELSE req.K > 0)
    => Raised

(***************************************************************************)
(* C18: on every invalid or unstable input the failure is signalled by     *)
(* raising an error; no function returns a mapping or a list that encodes  *)
(* the failure as a value, such as an "Erro" key or infinite metrics.      *)
(***************************************************************************)
(* a returned list of classes with an infinite metric *)
InfiniteMetrics ==
    /\ "classes" \in DOMAIN res
    /\ \E i \in DOMAIN res.classes :
          \E f \in DOMAIN res.classes[i] : res.classes[i][f] = Infinity

EncodesFailure == Returned /\ ("Erro" \in DOMAIN res \/ InfiniteMetrics)

C18_FailuresAreRaised == ~EncodesFailure

(* the functions of the package modelos *)
EngineCall ==
    req.fn \in {"mm1", "mms", "mg1", "erlang_c", "mm1k", "mmsk", "mm1n", "mmsn",
                "mms_priority_preemptive", "mms_priority_non_preemptive"}

(* C18, restricted: what a function of modelos returns never encodes a     *)
(* failure                                                                 *)
C18_EnginesNeverEncode == EngineCall => ~EncodesFailure

(***************************************************************************)
(* C19: running an operation again with the same inputs yields the same    *)
(* output, and no output depends on what an earlier call left behind: once *)
(* a request has been called, calling it again changes neither what it     *)
(* produces nor the object it is called on.  This includes Mmsn.mmsn       *)
(* called again on the same object, whose p_list is rebuilt by every call. *)
(***************************************************************************)
(* the request is an operation of a queueing model; capture_output is the  *)
(* wrapper of the window, and what it is given to run differs from call to *)
(* call                                                                    *)
ModelOperation == req.fn # "capture_output"

C19_RepeatedCallsAgree ==
    [][(calls >= 1 /\ ModelOperation) => (res' = res /\ obj' = obj)]_vars

(* Mmsn.mmsn has returned twice on one object with several states *)
C19_Witness ==
    /\ req.fn = "Mmsn.mmsn"
    /\ calls >= 2
    /\ Returned /\ prev = res
    /\ Len(obj.p_list) = req.K + 1
    /\ req.K >= 2

(***************************************************************************)
(* C20: priority_with_preemption and priority_without_preemption compute   *)
(* metrics only for inputs with at least 3 priority classes and at most 3  *)
(* servers, s being 3 when the call omits it: a call with fewer than 3     *)
(* classes, or with s > 3, raises an error and returns no metric.          *)
(***************************************************************************)
ExtendedCall ==
    /\ req.fn \in {"priority_with_preemption", "priority_without_preemption"}
    /\ calls >= 1

(* the server count the call runs with *)
ExtendedServersUsed == servers_or_default(req.has_s, req.s)

C20_ThreeClassesThreeServers ==
    (ExtendedCall /\ (Len(req.rates) < 3 \/ ExtendedServersUsed > 3))
        => res.kind = "raise"

(* C20, the part that holds: metrics are returned only for a list of at    *)
(* least MIN_PRIORITY_CLASSES (one) rates and 1 to 3 servers; more than 3  *)
(* servers are refused with the error on s unless the rates are refused    *)
(* first                                                                   *)
C20_LimitsEnforced ==
    ExtendedCall =>
        /\ res.kind = "return" =>
              /\ Len(req.rates) >= MIN_PRIORITY_CLASSES
              /\ ExtendedServersUsed \in 1 .. MAX_SERVERS
        /\ ExtendedServersUsed > MAX_SERVERS =>
              /\ res.kind = "raise" /\ res.exc = "ValueError"
              /\ coerce_arrival_rates(req.rates).kind = "return" =>
                    res.msg = "Numero de servidores (s) deve ser <= 3."

(* a single class on one server gets its metrics, a call that omits s runs *)
(* on three servers, and a call with four servers is refused               *)
C20_SingleClassServed ==
    /\ ExtendedCall /\ Len(req.rates) = 1 /\ req.has_s /\ req.s = 1
    /\ res.kind = "return"

C20_DefaultServers ==
    /\ ExtendedCall /\ ~req.has_s /\ Len(req.rates) = 2
    /\ res.kind = "return"

C20_FourServersRefused ==
    /\ ExtendedCall /\ req.has_s /\ req.s = MAX_SERVERS + 1 /\ Len(req.rates) = 3
    /\ res.kind = "raise" /\ res.msg = "Numero de servidores (s) deve ser <= 3."

(***************************************************************************)
(* C21.  For s > 1 and every stable rate list with all lambda_k > 0, the   *)
(* preemptive engine sets W_1 to the M/M/s time in the system at arrival   *)
(* rate R_1 and, for k > 1, W_k = (R_k * Wbar_k - sum_{j<k} lambda_j * W_j) *)
(* / lambda_k, Wbar_k being the M/M/s time in the system at arrival rate   *)
(* R_k; hence sum_{j<=k} lambda_j * W_j = R_k * Wbar_k for every k.        *)
(* mms_priority_preemptive reports these W_k; the form function reports    *)
(* each value rounded to six decimals.                                     *)
(***************************************************************************)
(* the time in the system of the M/M/s queue at arrival rate lambda > 0:   *)
(* W = (Lq + a) / lambda, Lq = p0 * a^s * rho / (s! * (1 - rho)^2)         *)
MmsSystemTime(lambda, mu, s) ==
    LET a == RDiv(lambda, Rat(mu))
        rho == RDiv(lambda, Rat(s * mu))
        s_fact == Rat(factorial(s))
        below(n) == RDiv(RPow(a, n - 1), Rat(factorial(n - 1)))
        p0 == RDiv(One, RAdd(SumOver([n \in 1 .. s |-> below(n)], s),
                             RDiv(RDiv(RPow(a, s), s_fact), RSub(One, rho))))
        Lq == RDiv(RMul(RMul(p0, RPow(a, s)), rho),
                   RMul(s_fact, RMul(RSub(One, rho), RSub(One, rho))))
    IN  RDiv(RAdd(Lq, a), lambda)

PreemptiveMultiServer ==
    /\ req.fn = "mms_priority_preemptive" /\ req.s > 1
    /\ StablePriority /\ AllPositive

Wbar(k) == MmsSystemTime(Rat(R(k)), req.mu, req.s)

(* lambda_j * W_j of the result, for j = 1 .. Len(req.rates) *)
WeightedTimes == [j \in Classes |-> RMul(Rat(req.rates[j]), res.per_class[j].W)]

PreemptiveDecomposition ==
    /\ Len(res.per_class) = Len(req.rates)
    /\ res.per_class[1].W = Wbar(1)
    /\ \A k \in Classes :
          /\ k > 1 => res.per_class[k].W =
                          RDiv(RSub(RMul(Rat(R(k)), Wbar(k)), SumOver(WeightedTimes, k - 1)),
                               Rat(req.rates[k]))
          /\ SumOver(WeightedTimes, k) = RMul(Rat(R(k)), Wbar(k))

(* the rates lambda_i the form function derives from its arguments *)
FormRatesOf == calcular_lambda_i(req.lmbda, parse_proporcoes(req.fields, 1))

FormPreemptiveMultiServer ==
    /\ req.fn = "calcular_mms_prioridade_com_interrupcao"
    /\ req.mu > 0 /\ req.s > 1 /\ req.lmbda < req.s * req.mu
    /\ FormRatesOf.kind = "return"
    /\ \A i \in 1 .. Len(FormRatesOf.value) : RGt(FormRatesOf.value[i], Zero)

FormR(k) == SumRats(FormRatesOf.value, k)

FormWbar(k) == MmsSystemTime(FormR(k), req.mu, req.s)

(* with every W_j as the recurrence sets it, sum_{j<k} lambda_j * W_j is    *)
(* R_{k-1} * Wbar_{k-1}                                                    *)
FormW(k) ==
    IF k = 1 THEN FormWbar(1)
    ELSE RDiv(RSub(RMul(FormR(k), FormWbar(k)), RMul(FormR(k - 1), FormWbar(k - 1))),
              FormRatesOf.value[k])

FormDecomposition ==
    /\ "classes" \in DOMAIN res
    /\ Len(res.classes) = Len(FormRatesOf.value)
    /\ \A k \in 1 .. Len(FormRatesOf.value) :
          /\ res.classes[k].W_bar = round6(FormWbar(k))
          /\ res.classes[k].W = round6(FormW(k))

C21_PreemptiveDecomposition ==
    /\ (Done /\ PreemptiveMultiServer) => (Returned /\ PreemptiveDecomposition)
    /\ (Done /\ FormPreemptiveMultiServer) => (Returned /\ FormDecomposition)

(* rates 1, 2 on two servers of rate 2: W_1 = 8/15 is the M/M/2 time at    *)
(* rate 1, and 1 * W_1 + 2 * W_2 = 3 * 8/7                                 *)
C21_Witness ==
    /\ req.fn = "mms_priority_preemptive"
    /\ req.rates = <<1, 2>> /\ req.mu = 2 /\ req.s = 2
    /\ Returned
    /\ res.per_class[1].W = <<8, 15>>
    /\ res.per_class[1].W # res.per_class[2].W
    /\ RAdd(res.per_class[1].W, RMul(Rat(2), res.per_class[2].W)) = <<24, 7>>

(* the form function on two classes of rate 1/2 each, two servers *)
C21_FormWitness ==
    /\ req.fn = "calcular_mms_prioridade_com_interrupcao"
    /\ FormPreemptiveMultiServer /\ Done
    /\ Len(FormRatesOf.value) = 2
    /\ Returned /\ "classes" \in DOMAIN res
    /\ res.classes[1].W # res.classes[2].W

(***************************************************************************)
(* C22.  In the s > 1 preemptive recurrence the classes are processed in   *)
(* index order 1 .. m; when class k is processed the memo of earlier       *)
(* results holds exactly k - 1 entries, the j-th entry being the finalized *)
(* W_j of class j, and no entry is changed after it is stored.  This holds *)
(* for every rate list, including lists in which some class has            *)
(* lambda_j = 0.                                                           *)
(* As stated (C22_MemoHoldsEarlierClasses) it fails in the form function,  *)
(* which stores no entry for a class with lambda_j = 0; it holds in        *)
(* mms_priority_preemptive (C22_PreemptiveMemo), and in both functions the *)
(* classes are taken in index order and a stored entry is never changed    *)
(* (C22_MemoKept).                                                         *)
(***************************************************************************)
(* a call for s > 1 is between two passes of its loop *)
InPreemptiveLoop == obj.kind = "loop" /\ obj.s > 1

InFormLoop == InPreemptiveLoop /\ req.fn = "calcular_mms_prioridade_com_interrupcao:loop"

InModelosLoop == InPreemptiveLoop /\ req.fn = "mms_priority_preemptive:loop"

(* the class the next pass processes, the memo, and the W stored with the  *)
(* results of the classes processed so far                                 *)
NextClass == IF InFormLoop THEN obj.i ELSE obj.idx

Memo == IF InFormLoop THEN obj.Ws_acumulado ELSE obj.W_list

Finalized ==
    IF InFormLoop THEN [j \in 1 .. Len(obj.resultados) |-> obj.resultados[j].W]
    ELSE [j \in 1 .. Len(obj.class_metrics) |-> obj.class_metrics[j].W]

MemoAligned ==
    /\ Len(Memo) = NextClass - 1
    /\ Len(Finalized) = NextClass - 1
    /\ \A j \in 1 .. NextClass - 1 : Memo[j] = Finalized[j]

C22_MemoHoldsEarlierClasses == InPreemptiveLoop => MemoAligned

C22_PreemptiveMemo == InModelosLoop => MemoAligned

(* the memo before a pass is a prefix of the memo after it *)
MemoExtended ==
    /\ NextClass' = NextClass + 1
    /\ Len(Memo') >= Len(Memo)
    /\ SubSeq(Memo', 1, Len(Memo)) = Memo

C22_MemoKept == [][(InPreemptiveLoop /\ InPreemptiveLoop') => MemoExtended]_vars

(* mms_priority_preemptive before its third pass on a list whose first     *)
(* class is idle: the memo holds both earlier classes                      *)
C22_Witness ==
    /\ InModelosLoop /\ NextClass = 3
    /\ obj.rates[1] = 0 /\ obj.rates[2] > 0
    /\ Len(Memo) = 2 /\ Memo[2] = Finalized[2]

(* the form function before its second pass, the first class idle *)
C22_FormIdleClass ==
    /\ InFormLoop /\ NextClass = 2
    /\ obj.lambdas_[1] = Zero
    /\ Memo = <<>>

(***************************************************************************)
(* C23.  For s in {2, 3}, the preemptive priority engine returns a result  *)
(* and raises nothing for every rate list with all lambda_i >= 0 and       *)
(* 0 < sum of lambda_i < s * mu, including lists in which a class other    *)
(* than the first has lambda_i = 0.                                        *)
(* As stated (C23_StableListsReturn) it fails: a class after the first     *)
(* with lambda_i = 0 ends the call with a ZeroDivisionError; the call      *)
(* returns exactly when every class after the first has lambda_i > 0       *)
(* (C23_ReturnsUnlessLaterClassIdle).                                      *)
(***************************************************************************)
PreemptiveTwoOrThree ==
    /\ req.fn = "mms_priority_preemptive" /\ req.s \in {2, 3}
    /\ StablePriority /\ TotalRate > 0

LaterClassIdle == \E i \in Classes : i > 1 /\ req.rates[i] = 0

C23_StableListsReturn == (Done /\ PreemptiveTwoOrThree) => Returned

C23_ReturnsUnlessLaterClassIdle ==
    (Done /\ PreemptiveTwoOrThree) =>
        IF LaterClassIdle
        THEN Raised /\ res.exc = "ZeroDivisionError"
        ELSE Returned /\ Len(res.per_class) = Len(req.rates)

(* an idle first class is served: rates 0, 1 on two servers of rate 1 *)
C23_IdleFirstClass ==
    /\ Done /\ PreemptiveTwoOrThree
    /\ req.rates = <<0, 1>> /\ req.mu = 1 /\ req.s = 2
    /\ Returned /\ res.per_class[2].W = <<4, 3>>

(* an idle second class: rates 1, 0 on two servers of rate 1 *)
C23_IdleSecondClass ==
    /\ Done /\ PreemptiveTwoOrThree
    /\ req.rates = <<1, 0>> /\ req.mu = 1 /\ req.s = 2
    /\ Raised /\ res.exc = "ZeroDivisionError"

(***************************************************************************)
(* C24.  mm1 returns a metrics record for every mu > 0 and every lambda    *)
(* with 0 <= lambda < mu; at lambda = 0 it returns rho = 0, p0 = 1, L = 0, *)
(* Lq = 0 (as mms does for lambda = 0) and never ends with an arithmetic   *)
(* exception such as a division by zero.                                   *)
(* As stated (C24_Mm1ServesIdleQueue) it fails at lambda = 0, where mm1    *)
(* divides by lambda; mm1 returns for 0 < lambda < mu and mms returns the  *)
(* idle record at lambda = 0 (C24_Mm1ReturnsWhenBusy).                     *)
(***************************************************************************)
Mm1Accepted == req.fn = "mm1" /\ req.mu > 0 /\ 0 <= req.lmbda /\ req.lmbda < req.mu

IdleRecord ==
    /\ Returned
    /\ res.rho = Zero /\ res.p0 = One /\ res.L = Zero /\ res.Lq = Zero

C24_Mm1ServesIdleQueue ==
    (Done /\ Mm1Accepted) =>
        /\ Returned
        /\ req.lmbda = 0 => IdleRecord

C24_Mm1ReturnsWhenBusy ==
    /\ (Done /\ Mm1Accepted /\ req.lmbda > 0) => Returned
    /\ (Done /\ Mm1Accepted /\ req.lmbda = 0) =>
          (Raised /\ res.exc = "ZeroDivisionError")
    /\ (Done /\ req.fn = "mms" /\ req.mu > 0 /\ req.s >= 1 /\ req.lmbda = 0) =>
          IdleRecord

C24_Mm1IdleRaises ==
    /\ Done /\ Mm1Accepted /\ req.lmbda = 0 /\ req.mu = 1
    /\ Raised /\ res.exc = "ZeroDivisionError"

C24_MmsIdleReturns ==
    /\ Done /\ req.fn = "mms" /\ req.lmbda = 0 /\ req.mu = 1 /\ req.s = 1
    /\ IdleRecord

(***************************************************************************)
(* C25.  When a call violates several parameter checks at once, the error  *)
(* reported is that of the first failing check in this order: mu > 0,      *)
(* then s is a positive integer, then all lambda_i >= 0, then K >= s /     *)
(* N >= s, then stability.                                                 *)
(* As stated (C25_ChecksInStatedOrder) it fails: every engine checks the   *)
(* arrival rates before mu and s.  The error reported is that of the first *)
(* failing check in the order lambda_i >= 0, mu > 0, s, K or N             *)
(* (C25_ChecksInCodeOrder).                                                *)
(***************************************************************************)
CheckedCall ==
    /\ req.fn \in {"mm1", "mms", "mm1k", "mmsk", "mm1n", "mmsn",
                   "mms_priority_preemptive", "mms_priority_non_preemptive"}
    /\ PriorityCall => Len(req.rates) >= 1

BadRate ==
    IF PriorityCall THEN \E i \in 1 .. Len(req.rates) : req.rates[i] < 0
    ELSE req.lmbda < 0

BadMu == req.mu <= 0

BadServers == req.fn \notin {"mm1", "mm1k", "mm1n"} /\ req.s <= 0

BadCapacity ==
    /\ req.fn \in {"mm1k", "mmsk", "mm1n", "mmsn"}
    /\ req.K < 0 \/ (req.fn = "mmsk" /\ req.K < req.s)

ChecksViolated ==
    {c \in {"rate", "mu", "s", "capacity"} :
        \/ c = "rate" /\ BadRate
        \/ c = "mu" /\ BadMu
        \/ c = "s" /\ BadServers
        \/ c = "capacity" /\ BadCapacity}

(* the check whose error the call reports *)
ReportedCheck ==
    IF ~Raised THEN "none"
    ELSE IF res.msg \in {"lambda (lmbda) deve ser >= 0", "lambda_idx deve ser >= 0."}
         THEN "rate"
    ELSE IF res.msg \in {"mu deve ser > 0", "mu deve ser > 0."} THEN "mu"
    ELSE IF res.msg \in {"s deve ser inteiro >= 1", "s deve ser inteiro >= 1."} THEN "s"
    ELSE IF res.msg \in {"K deve ser inteiro >= 0", "K deve ser >= s",
                         "N deve ser inteiro >= 0"}
         THEN "capacity"
    ELSE "other"

FirstInStatedOrder ==
    IF BadMu THEN "mu" ELSE IF BadServers THEN "s"
    ELSE IF BadRate THEN "rate" ELSE "capacity"

FirstInCodeOrder ==
    IF BadRate THEN "rate" ELSE IF BadMu THEN "mu"
    ELSE IF BadServers THEN "s" ELSE "capacity"

C25_ChecksInStatedOrder ==
    (Done /\ CheckedCall /\ Cardinality(ChecksViolated) >= 2)
        => ReportedCheck = FirstInStatedOrder

C25_ChecksInCodeOrder ==
    (Done /\ CheckedCall /\ ChecksViolated # {})
        => ReportedCheck = FirstInCodeOrder

(* mmsk(-1, 0, 0, -1): all four checks fail and the rate is reported *)
C25_AllFourViolated ==
    /\ Done /\ req.fn = "mmsk" /\ ChecksViolated = {"rate", "mu", "s", "capacity"}
    /\ ReportedCheck = "rate"

(* a priority call with mu = 0, s = 0 and valid rates reports mu *)
C25_MuBeforeServers ==
    /\ Done /\ PriorityCall /\ CheckedCall /\ ChecksViolated = {"mu", "s"}
    /\ ReportedCheck = "mu"

(***************************************************************************)
(* C26.  For every integer s >= 1, mu > 0 and 0 < lambda < s * mu,         *)
(* erlang_c(lambda, mu, s) equals                                          *)
(* [a^s/s! * s*mu/(s*mu - lambda)] /                                       *)
(* [sum_{k=0}^{s-1} a^k/k! + a^s/s! * s*mu/(s*mu - lambda)]                *)
(* with a = lambda / mu; for s = 1 it equals rho = lambda / mu.  The same   *)
(* holds of _erlang_c of the preemptive form.                              *)
(***************************************************************************)
ErlangCCall ==
    /\ req.fn \in {"erlang_c", "_erlang_c"}
    /\ req.s >= 1 /\ req.mu > 0
    /\ 0 < req.lmbda /\ req.lmbda < req.s * req.mu

(* a^k / k! *)
ErlangTerm(k) == RDiv(RPow(Norm(req.lmbda, req.mu), k), Rat(factorial(k)))

(* a^s/s! * s*mu / (s*mu - lambda) *)
ErlangTail ==
    RMul(ErlangTerm(req.s), Norm(req.s * req.mu, req.s * req.mu - req.lmbda))

ErlangCFormula ==
    RDiv(ErlangTail,
         RAdd(SumOver([k \in 1 .. req.s |-> ErlangTerm(k - 1)], req.s), ErlangTail))

C26_FormWitness ==
    /\ Done /\ ErlangCCall /\ req.fn = "_erlang_c"
    /\ req.lmbda = 2 /\ req.mu = 3 /\ req.s = 2
    /\ Returned /\ res.value = <<1, 6>>

(***************************************************************************)
(* C27.  For s > 1 and every stable input, the P(Wq>t) reported for M/M/s  *)
(* is Pw * e^(-s*mu*(1-rho)*t) where the coefficient Pw is the Erlang-C    *)
(* waiting probability; in particular at t = 0 the reported value equals   *)
(* Pw = Lq * (1 - rho) / rho.                                              *)
(* As stated (C27_WaitingTail) it fails for the method                     *)
(* Mm.prob_wq_maior_que_t, whose coefficient is Lq / (lambda / mu); it     *)
(* holds of mms called with t (C27_MmsWaitingTail).                        *)
(***************************************************************************)
TailCall ==
    /\ req.fn \in {"mms:t", "Mm.prob_wq_maior_que_t", "formulas.Mm.prob_wq_maior_que_t"}
    /\ calls >= 1
    /\ req.s > 1 /\ req.mu > 0 /\ 0 < req.lmbda /\ req.lmbda < req.s * req.mu
    /\ req.t >= 0

Utilisation == Norm(req.lmbda, req.s * req.mu)

(* Pw * e^(-s*mu*(1-rho)*t) *)
ErlangTailAt(t) ==
    Scaled(ErlangCFormula,
           RNeg(RMul(RMul(Rat(req.s * req.mu), RSub(One, Utilisation)), Rat(t))))

ReportedTail == IF req.fn = "mms:t" THEN res.PWq_gt_t ELSE res.value

C27_WaitingTail == TailCall => (Returned /\ ReportedTail = ErlangTailAt(req.t))

C27_MmsWaitingTail ==
    (TailCall /\ req.fn = "mms:t") =>
        /\ Returned
        /\ ReportedTail = ErlangTailAt(req.t)
        /\ ErlangCFormula = RDiv(RMul(res.Lq, RSub(One, Utilisation)), Utilisation)
        /\ req.t = 0 => (ReportedTail.exp = Zero /\ ReportedTail.coef = ErlangCFormula)

(* the coefficient of the method of Mm is Lq / (lambda / mu), Lq that of   *)
(* the M/M/s queue; the exponent is the stated one                         *)
C27_MmCoefficient ==
    (TailCall /\ req.fn # "mms:t") =>
        /\ Returned
        /\ ReportedTail.coef =
               RDiv(RMul(ErlangCFormula, Utilisation),
                    RMul(RSub(One, Utilisation), Norm(req.lmbda, req.mu)))
        /\ ReportedTail.exp = ErlangTailAt(req.t).exp

(* mms(3, 2, 2, t=1): Pw = 9/14 and the exponent -s*mu*(1-rho)*t = -1 *)
C27_MmsWitness ==
    /\ TailCall /\ req.fn = "mms:t"
    /\ req.lmbda = 3 /\ req.mu = 2 /\ req.s = 2 /\ req.t = 1
    /\ Returned /\ res.PWq_gt_t = [coef |-> <<9, 14>>, exp |-> <<-1, 1>>]

(* Mm(3, 2, 2).prob_wq_maior_que_t(0) is 9/7, above 1 *)
C27_MmAboveOne ==
    /\ TailCall /\ req.fn = "Mm.prob_wq_maior_que_t"
    /\ req.lmbda = 3 /\ req.mu = 2 /\ req.s = 2 /\ req.t = 0
    /\ Returned /\ res.value = [coef |-> <<9, 7>>, exp |-> Zero]

(***************************************************************************)
(* C28: no model function calls a factorial with an argument above 170.    *)
(***************************************************************************)
(* a call of mms or erlang_c with many servers that gets to its sums *)
ManyServersCall ==
    /\ req.fn \in {"mms:s", "erlang_c:s"}
    /\ req.mu > 0
    /\ 0 < req.lmbda /\ req.lmbda < req.s * req.mu

(* the largest argument the call passed to factorial *)
LargestFactorialArgument ==
    LET passed == factorial_calls(req.s) IN passed[Len(passed)]

(* C28: a call of mms or erlang_c that gets to its sums passes no argument *)
(* above 170 to factorial.  Violated: the sums call factorial(k) for every *)
(* k up to s, and s is the caller's.                                       *)
C28_FactorialArgumentBounded ==
    (Done /\ ManyServersCall) => LargestFactorialArgument <= 170

(* C28, what the code does: with more than 170 servers the call passes 171 *)
(* to factorial and ends in OverflowError.                                 *)
C28_LargeFactorialRaises ==
    (Done /\ ManyServersCall)
    => /\ LargestFactorialArgument = 171
       /\ Raised /\ res.exc = "OverflowError"

(* mms(1, 1, 171) has raised OverflowError *)
C28_MmsOverflow ==
    /\ Done /\ req.fn = "mms:s"
    /\ req.lmbda = 1 /\ req.mu = 1 /\ req.s = 171
    /\ Raised /\ res.exc = "OverflowError"

(* erlang_c(1, 1, 172) has raised OverflowError *)
C28_ErlangCOverflow ==
    /\ Done /\ req.fn = "erlang_c:s"
    /\ req.lmbda = 1 /\ req.mu = 1 /\ req.s = 172
    /\ Raised /\ res.exc = "OverflowError"

(***************************************************************************)
(* C29: mms with one server is mm1.                                        *)
(***************************************************************************)
(* mms(lmbda, mu, 1, n=n) with mu > 0, 0 < lmbda < mu and n >= 0 *)
OneServerCall ==
    /\ req.fn = "mms:n" /\ req.s = 1
    /\ req.mu > 0
    /\ 0 < req.lmbda /\ req.lmbda < req.mu
    /\ req.n >= 0

(* what mm1 returns for the same lmbda, mu and n *)
Mm1Counterpart == mm1_n(req.lmbda, req.mu, req.n)

(* C29: for mu > 0 and 0 < lambda < mu, mms(lambda, mu, 1) and             *)
(* mm1(lambda, mu) return equal rho, p0, L, Lq, W and Wq and equal pn for  *)
(* every n >= 0.                                                           *)
C29_OneServerIsMm1 ==
    (Done /\ OneServerCall) =>
        /\ Returned
        /\ Mm1Counterpart.kind = "return"
        /\ \A f \in {"rho", "p0", "L", "Lq", "W", "Wq", "pn"} :
               res[f] = Mm1Counterpart[f]

(* mms(1, 2, 1, n=3) has returned pn = 1/16, past the n <= s branch *)
C29_Witness ==
    /\ Done /\ OneServerCall
    /\ req.lmbda = 1 /\ req.mu = 2 /\ req.n = 3
    /\ Returned /\ res.pn = <<1, 16>> /\ res.p0 = <<1, 2>>
    /\ Mm1Counterpart.pn = <<1, 16>>

(***************************************************************************)
(* C30: capture_output leaves sys.stdout as it found it.                   *)
(***************************************************************************)
(* capture_output has been called and has ended, by a return or by an      *)
(* exception                                                               *)
CaptureOutputEnded ==
    /\ req.fn = "capture_output"
    /\ Done /\ obj.kind = "interpreter"

(* C30: whatever func did, when capture_output has ended sys.stdout is the *)
(* object it was before the call, after every sequence of calls.           *)
C30_StdoutRestored ==
    CaptureOutputEnded => obj.stdout = obj.original

(* C30, call by call: the finally clause binds sys.stdout to what it was   *)
(* bound to when the call was made.                                        *)
C30_EachCallRestores ==
    [][(req.fn = "capture_output" /\ obj.kind = "capture" /\ obj'.kind = "interpreter")
       => obj'.stdout = obj.old_stdout]_vars

(* a second call has ended in KeyboardInterrupt after a first one whose    *)
(* except clause raised, and sys.stdout is the stream of the start         *)
C30_Witness ==
    /\ CaptureOutputEnded /\ calls = 2
    /\ prev.kind = "raise" /\ prev.exc = "TclError"
    /\ Raised /\ res.exc = "KeyboardInterrupt"
    /\ obj.stdout = "StringIO" /\ obj.original = "StringIO"

(* inside a call func has bound sys.stdout to a stream of its own and has  *)
(* raised: the finally clause is what comes next                           *)
C30_ReboundInside ==
    /\ req.fn = "capture_output" /\ obj.kind = "capture" /\ obj.at = "except"
    /\ obj.stdout = "os.devnull" /\ obj.old_stdout = "sys.__stdout__"

====
